---- MODULE Spec2Model ----
(***************************************************************************)
(* A model of render.py: the ComprehensiveRenderer (the Batch Sequencer)   *)
(* and the AnimationRenderer (the Frame Animator), driven by the host's    *)
(* slate post-tick callbacks.                                              *)
(*                                                                         *)
(* A handler runs to completion inside one host callback, so every handler *)
(* is one action.  A handler calls into the host (spawn, backdrop setup,   *)
(* file write, file removal), whose outcome the program does not control:  *)
(* every operator that models code therefore returns the SET of worlds the *)
(* code can end in, one for each combination of host outcomes.             *)
(***************************************************************************)
EXTENDS Integers, Sequences, FiniteSets, TLC

\* ---------------------------------------------------------------- bounds
\* A configuration has at most MaxNodes entries: scenes, assets and motions.
MaxNodes == 6
\* num_frames of an animator used on its own is at most MaxFrames.
MaxFrames == 3
\* The configurations checked for termination have at most MaxLiveNodes entries.
MaxLiveNodes == 5

\* ------------------------------------------------------ program constants
\* render.py:251  if self._delete_attempts > 60
MaxDeleteAttempts == 60

VARIABLES
    cfg,    \* the configuration: fixed after Init
    seq,    \* the ComprehensiveRenderer object
    anim,   \* the AnimationRenderer object most recently constructed
    host,   \* the engine: level actors, registered tick callbacks, the job directory
    ghost   \* history: what the handlers did (never read by the modelled code)

vars == <<cfg, seq, anim, host, ghost>>

\* ----------------------------------------------------------------- names
\* Strings are tuples of one-character strings, so that `a in b` (substring)
\* and f-string concatenation are computed, not assumed.
Digit(i) == <<"0", "1", "2", "3", "4", "5", "6", "7", "8", "9">>[i + 1]

Sep == <<"_">>

\* render.py:446  current_config.get("name", f"HDRI_{index}")
HdriName(config, index) ==
    IF config.has_name THEN config.name
    ELSE <<"H", "D", "R", "I">> \o Sep \o <<Digit(index)>>

\* render.py:664 and render.py:702  f"{asset_label}_{hdri_name}_{motion_type}"
ActorLabel(asset_label, hdri_name, motion_type) ==
    asset_label \o Sep \o hdri_name \o Sep \o motion_type

\* Python's `needle in hay` on strings.
Contains(hay, needle) ==
    \E i \in 0..(Len(hay) - Len(needle)) :
        \A j \in 1..Len(needle) : hay[i + j] = needle[j]

\* The label the host stores when it does not store the requested one as is.
HostRelabel(label) == label \o <<"2">>

BackdropLabel == <<"H", "D", "R", "I", "B", "a", "c", "k", "d", "r", "o", "p">>

\* --------------------------------------------------------- configurations
MotionName(m) == <<"m", Digit(m)>>
AssetLabelAt(a) == <<"a", Digit(a)>>
SceneNameAt(s) == <<"s", Digit(s)>>

MotionsOfLen(n) == [m \in 1..n |-> MotionName(m)]

\* The asset lists of k entries (assets and motions), as motion counts.
RECURSIVE AssetShapes(_)
AssetShapes(k) ==
    IF k = 0 THEN { <<>> }
    ELSE UNION { { <<n>> \o rest : rest \in AssetShapes(k - 1 - n) } : n \in 0..(k - 1) }

\* The scene at 0-based index s.  The first scene is named, the others leave
\* "name" out and get the default of render.py:446; the second scene leaves the
\* optional "camera_config" out (render.py:605, render.py:725).  A list without
\* entries is an empty list or a key left out: the second scene leaves an
\* empty "assets" out and the first asset of a scene an empty "motions"
\* (render.py:494, render.py:519).
SceneConfig(s, shape, frames) ==
    [ has_name |-> (s = 0),
      name |-> SceneNameAt(s),
      has_camera |-> (s # 1),
      num_frames |-> frames,
      has_assets |-> (shape # <<>> \/ s # 1),
      assets |-> [a \in 1..Len(shape) |->
                    [label |-> AssetLabelAt(a),
                     has_motions |-> (shape[a] # 0 \/ a # 1),
                     motions |-> MotionsOfLen(shape[a])]] ]

\* render.py:494  current_config.get("assets", [])
get_assets(config) == IF config.has_assets THEN config.assets ELSE <<>>

\* render.py:519  current_asset.get("motions", [])
get_motions(asset) == IF asset.has_motions THEN asset.motions ELSE <<>>

\* The scene lists of k entries, the first scene at index s.
RECURSIVE SceneLists(_, _, _)
SceneLists(k, s, frames) ==
    IF k = 0 THEN { <<>> }
    ELSE UNION { { <<SceneConfig(s, shape, frames)>> \o rest :
                        shape \in AssetShapes(j),
                        rest \in SceneLists(k - 1 - j, s + 1, frames) }
                 : j \in 0..(k - 1) }

\* motion_config["num_frames"] of a batch: without and with a frame to prune.
BatchFrameCounts == { 1, 2 }

ConfigsUpTo(nodes) ==
    UNION { SceneLists(k, 0, frames) : k \in 0..nodes, frames \in BatchFrameCounts }

HdriConfigs == ConfigsUpTo(MaxNodes)

\* ------------------------------------------------------------ the world
\* Python indices are kept 0-based; a TLA+ sequence is read at index + 1.
NoPath == -1
NoPose == -1

Leaf(w) == << w.seq.current_hdri_index, w.seq.current_asset_index, w.seq.current_motion_index >>

World == [seq |-> seq, anim |-> anim, host |-> host, ghost |-> ghost]

SetWorld(w) ==
    /\ seq' = w.seq
    /\ anim' = w.anim
    /\ host' = w.host
    /\ ghost' = w.ghost
    /\ UNCHANGED cfg

Log(w, e) ==
    [w EXCEPT !.ghost.trace =
        Append(@, [e |-> e, s |-> w.seq.current_hdri_index,
                   a |-> w.seq.current_asset_index, m |-> w.seq.current_motion_index])]

ClearTrace(w) == [w EXCEPT !.ghost.trace = <<>>]

\* A rational number as <<numerator, denominator>>.
Frac(n, d) == <<n, d>>
FracEq(x, y) == x[1] * y[2] = y[1] * x[2]
FracAdd(x, y) == << x[1] * y[2] + y[1] * x[2], x[2] * y[2] >>
FracSub(x, y) == << x[1] * y[2] - y[1] * x[2], x[2] * y[2] >>
FracMul(x, y) == << x[1] * y[1], x[2] * y[2] >>

\* unreal.Vector: three numbers; the difference of two vectors; math.sqrt of a
\* number, kept as the number under the root.
Vector(x, y, z) == << x, y, z >>
VectorSub(u, v) == << FracSub(u[1], v[1]), FracSub(u[2], v[2]), FracSub(u[3], v[3]) >>
VectorEq(u, v) == \A k \in 1..3 : FracEq(u[k], v[k])
Sqrt(x) == [sqrt_of |-> x]

\* The motion_config every scene of the model carries (render.py:655-657,
\* 716-717): total_distance, total_rotation, initial_location, initial_rotation.
TotalDistance == 6
TotalRotation == 90
InitialLocation == Vector(Frac(10, 1), Frac(-20, 1), Frac(30, 1))
InitialRotation == [pitch |-> Frac(1, 1), yaw |-> Frac(2, 1), roll |-> Frac(3, 1)]
NoPosition == <<>>
Linear == <<"l", "i", "n", "e", "a", "r">>

\* A handle names one registration of a tick callback: the handler, the object
\* it is bound to and the frame at which it was registered.
NoHandle == [kind |-> "none", leaf |-> <<0, 0, 0>>, n |-> 0]
Handle(kind, leaf, n) == [kind |-> kind, leaf |-> leaf, n |-> n]

NoId == [kind |-> "none", s |-> 0, a |-> 0, m |-> 0]
JobId(leaf) == [kind |-> "job", s |-> leaf[1], a |-> leaf[2], m |-> leaf[3]]
BackdropId(s) == [kind |-> "backdrop", s |-> s, a |-> 0, m |-> 0]

\* A pose of an actor: the location and rotation the host holds, the frame and
\* progress they were applied for, and the location that was asked for.
InitialPose ==
    [frame |-> NoPose, alpha |-> Frac(0, 1),
     location |-> InitialLocation, rotation |-> InitialRotation,
     requested |-> InitialLocation]
Actor(id, label) == [id |-> id, label |-> label, pose |-> InitialPose]

\* The fields of render.py:65-94, and three history fields (started,
\* finished_calls, path) that the code does not have.
NewAnim(leaf, label, frames, prune) ==
    [ exists |-> TRUE, leaf |-> leaf, actor_label |-> label,
      num_frames |-> frames, prune_last_frame |-> prune,
      frame_index |-> 0, has_target |-> FALSE, target_actor |-> NoId,
      callback_handle |-> NoHandle, frame_data |-> <<>>,
      delete_attempts |-> 0, delete_callback |-> NoHandle,
      last_frame_path |-> NoPath,
      start_position |-> NoPosition, start_rotation |-> NoPosition,
      previous_position |-> NoPosition, motion_type |-> Linear,
      started |-> FALSE, finished_calls |-> 0, path |-> "none" ]

NoAnim == [NewAnim(<<0, 0, 0>>, <<>>, 0, FALSE) EXCEPT !.exists = FALSE]

Max(x, y) == IF x > y THEN x ELSE y

\* ------------------------------------------------------ AnimationRenderer
RECURSIVE process_next_motion(_)

\* render.py:729-733
on_render_finished_stops(w) ==
    { Log([w EXCEPT !.seq.current_motion_index = @ + 1], "on_render_finished") }
on_render_finished(w) ==
    process_next_motion(
        Log([w EXCEPT !.seq.current_motion_index = @ + 1], "on_render_finished"))

\* The continuation given to the animator: render.py:739 in a batch, a plain
\* callable when the animator is used on its own.
on_finished_callback(w) ==
    LET w1 == Log([w EXCEPT !.anim.finished_calls = @ + 1], "on_finished")
    IN  IF cfg.mode = "batch" THEN on_render_finished(w1) ELSE { w1 }

\* render.py:349-353
cleanup_callback_keeps(w) == w
cleanup_callback(w) ==
    IF w.anim.callback_handle # NoHandle
    THEN [w EXCEPT !.host.registered = @ \ { w.anim.callback_handle },
                   !.anim.callback_handle = NoHandle]
    ELSE w

\* render.py:260-263
cleanup_delete_callback_keeps(w) == w
cleanup_delete_callback(w) ==
    IF w.anim.delete_callback # NoHandle
    THEN [w EXCEPT !.host.registered = @ \ { w.anim.delete_callback },
                   !.anim.delete_callback = NoHandle]
    ELSE w

\* render.py:316-333  the "frames" array built from frame_data
FramesOutput(frame_data) ==
    [i \in 1..Len(frame_data) |->
        [frame_id |-> frame_data[i].frame_index,
         object |->
            [position |-> << frame_data[i].pose.location[1],
                             frame_data[i].pose.location[2],
                             frame_data[i].pose.location[3] >>,
             rotation |-> << frame_data[i].pose.rotation.roll,
                             frame_data[i].pose.rotation.pitch,
                             frame_data[i].pose.rotation.yaw >>]]]

\* json.dump (render.py:345) writes a number as its decimal text and keeps the
\* order of arrays and of the keys of objects; json.load reads the texts back.
\* A float, kept here as a fraction, is written as numerator "/" denominator.
RECURSIVE DecimalText(_)
DecimalText(n) ==
    IF n < 10 THEN << Digit(n) >> ELSE DecimalText(n \div 10) \o << Digit(n % 10) >>

IntTextUnsigned(n) == IF n < 0 THEN DecimalText(0 - n) ELSE DecimalText(n)
IntText(n) == IF n < 0 THEN << "-" >> \o DecimalText(0 - n) ELSE DecimalText(n)

FloatText(x) == IntText(x[1]) \o << "/" >> \o IntText(x[2])

DigitValue(c) == CHOOSE d \in 0..9 : Digit(d) = c

RECURSIVE ParseDecimal(_)
ParseDecimal(text) ==
    IF Len(text) = 0 THEN 0
    ELSE 10 * ParseDecimal(SubSeq(text, 1, Len(text) - 1)) + DigitValue(text[Len(text)])

ParseInt(text) ==
    IF text[1] = "-" THEN 0 - ParseDecimal(Tail(text)) ELSE ParseDecimal(text)

ParseFloat(text) ==
    LET k == CHOOSE i \in 1..Len(text) : text[i] = "/"
    IN  Frac(ParseInt(SubSeq(text, 1, k - 1)), ParseInt(SubSeq(text, k + 1, Len(text))))

json_dump(frames_output) ==
    [i \in 1..Len(frames_output) |->
        [frame_id |-> IntText(frames_output[i].frame_id),
         object |->
            [position |-> [k \in 1..3 |-> FloatText(frames_output[i].object.position[k])],
             rotation |-> [k \in 1..3 |-> FloatText(frames_output[i].object.rotation[k])]]]]

json_load(text) ==
    [i \in 1..Len(text) |->
        [frame_id |-> ParseInt(text[i].frame_id),
         object |->
            [position |-> [k \in 1..3 |-> ParseFloat(text[i].object.position[k])],
             rotation |-> [k \in 1..3 |-> ParseFloat(text[i].object.rotation[k])]]]]

\* frustum_data.json: whether it was written, the "frames" list handed to
\* json.dump, and the text of "frames" in the file.
NoDataset == [written |-> FALSE, frames |-> <<>>, text |-> <<>>]

\* render.py:292-348  open() or json.dump may raise: the error is logged and the
\* file is not written.
export_frame_data_to_json(w) ==
    LET w1 == [w EXCEPT !.ghost.exports = @ + 1]
    IN  { Log([w1 EXCEPT !.host.dataset =
                    [written |-> TRUE, frames |-> FramesOutput(w.anim.frame_data),
                     text |-> json_dump(FramesOutput(w.anim.frame_data))]],
              "export_written"),
          Log(w1, "export_failed") }

\* render.py:219-221, 232-234, 244-246, 254-256  export, then the continuation
ExportWithoutFinish(w, path) ==
    { [x EXCEPT !.anim.path = path] : x \in export_frame_data_to_json(w) }
ExportAndFinishIfWritten(w, path) ==
    UNION { IF x.host.dataset.written
            THEN on_finished_callback([x EXCEPT !.anim.path = path])
            ELSE { [x EXCEPT !.anim.path = path] }
            : x \in export_frame_data_to_json(w) }
ExportAndFinish(w, path) ==
    UNION { on_finished_callback([x EXCEPT !.anim.path = path]) :
                x \in export_frame_data_to_json(w) }

\* render.py:251
GiveUpLate(attempts) == attempts > MaxDeleteAttempts + 1
GiveUp(attempts) == attempts > MaxDeleteAttempts

\* render.py:241-246  os.remove raised: the error is logged and the callback
\* goes on
AfterRemoveErrorRaises(w) == { w }
AfterRemoveError(w) == ExportAndFinish(cleanup_delete_callback(w), "remove_failed")

\* render.py:228-256  one run of the polling callback
poll(w) ==
    IF w.anim.last_frame_path = NoPath
    THEN ExportAndFinish(cleanup_delete_callback(w), "no_path")
    ELSE IF w.anim.last_frame_path \in w.host.files
    THEN \* os.remove succeeds, or raises and the file stays
         LET removed == [w EXCEPT !.host.files = @ \ { w.anim.last_frame_path },
                                  !.ghost.removed = @ \cup { w.anim.last_frame_path }]
         IN  ExportAndFinish(cleanup_delete_callback(Log(removed, "file_removed")), "pruned")
             \cup AfterRemoveError(Log(w, "remove_failed"))
    ELSE LET w1 == [w EXCEPT !.anim.delete_attempts = @ + 1]
         IN  IF GiveUp(w1.anim.delete_attempts)
             THEN ExportAndFinish(cleanup_delete_callback(Log(w1, "prune_timeout")),
                                  "timeout")
             ELSE { w1 }

\* render.py:223-258
schedule_delete_last_frame(w) ==
    LET w1 == IF w.anim.delete_callback # NoHandle
              THEN [w EXCEPT !.host.registered = @ \ { w.anim.delete_callback }]
              ELSE w
        h == Handle("poll", w.anim.leaf, 0)
    IN  [w1 EXCEPT !.host.registered = @ \cup { h }, !.anim.delete_callback = h]

\* render.py:212
PruneAlways(prune, frame_data) == prune
PruneNever(prune, frame_data) == FALSE
PruneApplies(prune, frame_data) == prune /\ Len(frame_data) > 1

\* render.py:205-221
finalize_and_prune(w) ==
    IF PruneApplies(w.anim.prune_last_frame, w.anim.frame_data)
    THEN LET n == Len(w.anim.frame_data)
             pruned_entry == w.anim.frame_data[n]
             w1 == [w EXCEPT !.anim.frame_data = SubSeq(@, 1, n - 1),
                             !.anim.last_frame_path = pruned_entry.image_filename]
         IN  { schedule_delete_last_frame(w1) }
    ELSE ExportAndFinish(w, "no_prune")

\* render.py:131
AlphaOfFrameCount(frame_index, num_frames) ==
    IF num_frames > 1 THEN Frac(frame_index, num_frames) ELSE Frac(0, 1)
AlphaOf(frame_index, num_frames) ==
    IF num_frames > 1 THEN Frac(frame_index, num_frames - 1) ELSE Frac(0, 1)

SetPose(actors, id, pose) ==
    { IF x.id = id THEN [x EXCEPT !.pose = pose] ELSE x : x \in actors }

PoseOf(actors, id) == (CHOOSE x \in actors : x.id = id).pose

\* motion_patterns.py:304-309
calculate_linear(alpha, start, total_distance) ==
    Vector(FracAdd(start[1], FracMul(alpha, Frac(total_distance, 1))), start[2], start[3])

\* motion_patterns.py:297-302
StaticRotation == <<"s", "t", "a", "t", "i", "c", "_", "r", "o", "t", "a", "t", "i", "o", "n">>
calculate_static_rotation(alpha, start, total_distance) == start

\* motion_patterns.py:313-337  the keys of the registry; each key is bound to
\* the calculator of its name
MOTION_CALCULATORS ==
    { <<"s", "i", "n", "e", "_", "w", "a", "v", "e">>,
      <<"z", "_", "s", "h", "a", "p", "e">>,
      <<"c", "i", "r", "c", "l", "e">>,
      <<"s", "p", "i", "r", "a", "l">>,
      <<"s", "q", "u", "a", "r", "e", "_", "w", "a", "v", "e">>,
      <<"z", "i", "g", "z", "a", "g">>,
      <<"t", "r", "i", "a", "n", "g", "l", "e", "_", "w", "a", "v", "e">>,
      <<"e", "l", "l", "i", "p", "s", "e">>,
      <<"f", "i", "g", "u", "r", "e", "8">>,
      <<"a", "r", "c">>,
      <<"b", "o", "u", "n", "c", "e">>,
      <<"s", "a", "w", "t", "o", "o", "t", "h">>,
      <<"s", "e", "r", "p", "e", "n", "t", "i", "n", "e">>,
      <<"l", "i", "s", "s", "a", "j", "o", "u", "s">>,
      <<"p", "e", "n", "d", "u", "l", "u", "m">>,
      <<"e", "x", "p", "a", "n", "d", "_", "c", "i", "r", "c", "l", "e">>,
      <<"r", "e", "c", "t", "a", "n", "g", "l", "e", "_", "l", "o", "o", "p">>,
      <<"d", "i", "a", "m", "o", "n", "d">>,
      <<"i", "n", "f", "i", "n", "i", "t", "y", "_", "h", "o", "r", "i", "z", "o", "n", "t", "a", "l">>,
      <<"r", "a", "n", "d", "o", "m", "_", "w", "a", "l", "k">>,
      StaticRotation, Linear }

\* motion_patterns.py:11-294  what the calculator bound to a key returns.  The
\* calculators other than the last two of the file go through math.sin,
\* math.cos and float rounding: their result is kept as the call itself, the
\* calculator with all the arguments it reads.
Calculate(calculator, alpha, start, frame_index, num_frames, total_distance) ==
    CASE calculator = Linear -> calculate_linear(alpha, start, total_distance)
      [] calculator = StaticRotation -> calculate_static_rotation(alpha, start, total_distance)
      [] OTHER -> [ calculator |-> calculator, alpha |-> alpha, start |-> start,
                    frame_index |-> frame_index, num_frames |-> num_frames,
                    total_distance |-> total_distance ]

\* motion_patterns.py:356  MOTION_CALCULATORS.get(motion_type, calculate_linear)
registry_get_static(motion_type) ==
    IF motion_type \in MOTION_CALCULATORS THEN motion_type ELSE StaticRotation
registry_get(motion_type) ==
    IF motion_type \in MOTION_CALCULATORS THEN motion_type ELSE Linear

\* motion_patterns.py:340-357
get_position_for_motion(motion_type, alpha, start, frame_index, num_frames, total_distance) ==
    Calculate(registry_get(motion_type), alpha, start, frame_index, num_frames,
              total_distance)

\* render.py:144-146  the origin the motion is computed from
InterpolationOriginPrevious(start_position, previous_position) == previous_position
InterpolationOrigin(start_position, previous_position) == start_position

\* set_actor_location (render.py:153): the location the host ends up holding
\* may differ from the one asked for; get_actor_location (render.py:169) reads
\* the one it holds.
HostDrifts == { 0, 1 }
HostLocation(v) == Vector(v[1], v[2], FracAdd(v[3], Frac(cfg.drift, 1)))

\* render.py:155
current_yaw_from_zero(start_yaw, alpha, total_rotation) ==
    FracMul(alpha, Frac(total_rotation, 1))
current_yaw(start_yaw, alpha, total_rotation) ==
    FracAdd(start_yaw, FracMul(alpha, Frac(total_rotation, 1)))

\* render.py:129-163
move_actor_and_schedule_screenshot(w) ==
    LET alpha == AlphaOf(w.anim.frame_index, w.anim.num_frames)
        h == Handle("frame", w.anim.leaf, w.anim.frame_index)
        current_position ==
            get_position_for_motion(
                w.anim.motion_type, alpha,
                InterpolationOrigin(w.anim.start_position, w.anim.previous_position),
                w.anim.frame_index, w.anim.num_frames, TotalDistance)
        current_rotation ==
            [pitch |-> w.anim.start_rotation.pitch,
             yaw |-> current_yaw(w.anim.start_rotation.yaw, alpha, TotalRotation),
             roll |-> w.anim.start_rotation.roll]
    IN  [w EXCEPT !.host.actors =
                      SetPose(@, w.anim.target_actor,
                              [frame |-> w.anim.frame_index, alpha |-> alpha,
                               location |-> HostLocation(current_position),
                               rotation |-> current_rotation,
                               requested |-> current_position]),
                  !.ghost.moves = @ + 1,
                  !.host.registered = @ \cup { h },
                  !.anim.callback_handle = h]

\* render.py:193
NextPreviousKept(previous_position, current_location) == previous_position
NextPrevious(previous_position, current_location) == current_location

\* render.py:198
NextFrameIndexStuck(frame_index) == frame_index
NextFrameIndex(frame_index) == frame_index + 1

\* render.py:199
MoreFramesOffByOne(frame_index, num_frames) == frame_index <= num_frames
MoreFrames(frame_index, num_frames) == frame_index < num_frames

\* render.py:166-203
take_screenshot_and_collect_data(w) ==
    LET w1 == cleanup_callback(w)
        i == w1.anim.frame_index
        current == PoseOf(w1.host.actors, w1.anim.target_actor)
        displacement == VectorSub(current.location, w1.anim.previous_position)
        data_entry ==
            [ frame_index |-> i,
              timestamp |-> Frac(i, Max(1, w1.anim.num_frames - 1)),
              pose |-> current,
              motion |->
                [ displacement |-> displacement,
                  displacement_magnitude |->
                    Sqrt(FracAdd(FracAdd(FracMul(displacement[1], displacement[1]),
                                         FracMul(displacement[2], displacement[2])),
                                 FracMul(displacement[3], displacement[3]))) ],
              image_filename |-> i ]
        w2 == [w1 EXCEPT !.anim.frame_data = Append(@, data_entry),
                         !.anim.previous_position =
                            NextPrevious(@, current.location),
                         !.host.pending = Append(@, i),
                         !.ghost.shots = Append(@, i),
                         !.anim.frame_index = NextFrameIndex(i)]
    IN  IF MoreFrames(w2.anim.frame_index, w2.anim.num_frames)
        THEN { move_actor_and_schedule_screenshot(w2) }
        ELSE finalize_and_prune(w2)

\* What the job's output directory may hold before the job writes to it: nothing,
\* or the image of the last frame left by an earlier run.
StaleChoices(num_frames) == { {}, { Max(1, num_frames) - 1 } }

\* render.py:105-109  no actor carries the label
ActorNotFoundSilent(w) == { Log([w EXCEPT !.anim.path = "not_found"], "not_found") }
ActorNotFound(w) ==
    on_finished_callback(Log([w EXCEPT !.anim.path = "not_found"], "not_found"))

\* render.py:96-126
AnimationRenderer_start(w) ==
    LET w1 == cleanup_callback([w EXCEPT !.anim.started = TRUE])
        found_actors == { x \in w1.host.actors : x.label = w1.anim.actor_label }
    IN  IF found_actors = {}
        THEN ActorNotFound(w1)
        ELSE { move_actor_and_schedule_screenshot(
                   [w1 EXCEPT !.anim.has_target = TRUE,
                              !.anim.target_actor = x.id,
                              !.anim.start_position = x.pose.location,
                              !.anim.start_rotation = x.pose.rotation,
                              !.anim.previous_position = x.pose.location,
                              !.host.files = stale,
                              !.host.pending = <<>>,
                              !.host.dataset = NoDataset])
               : x \in found_actors, stale \in StaleChoices(w1.anim.num_frames) }

\* --------------------------------------------------- ComprehensiveRenderer
SceneAt(index) == cfg.hdri_configs[index + 1]

CurrentHdriName(w) ==
    HdriName(SceneAt(w.seq.current_hdri_index), w.seq.current_hdri_index)

\* render.py:472-489  destroys every level actor whose label contains hdri_name
cleanup_hdri_actors(w, hdri_name) ==
    [w EXCEPT !.host.actors = { x \in @ : ~Contains(x.label, hdri_name) }]

\* render.py:618-641
cleanup_old_actors_none(w) == w
cleanup_old_actors(w) == cleanup_hdri_actors(w, CurrentHdriName(w))

\* The actors in the level that _spawn_actor created.
JobActorsOf(w) == { x \in w.host.actors : x.id.kind = "job" }

\* What spawn_static_mesh_actor can come back with: the actor, labelled as asked;
\* None (asset_utils.py:22-24, 33-35); the actor, with the label the host chose.
SpawnOutcomes == { "ok", "fail", "relabel" }

\* render.py:643-685 with asset_utils.py:6-46
spawn_actor(w, outcome) ==
    LET config == SceneAt(w.seq.current_hdri_index)
        current_asset == config.assets[w.seq.current_asset_index + 1]
        motion_type == current_asset.motions[w.seq.current_motion_index + 1]
        actor_label == ActorLabel(current_asset.label, CurrentHdriName(w), motion_type)
        w1 == Log([w EXCEPT !.ghost.attempts = Append(@, Leaf(w)),
                            !.ghost.crowded = @ \/ JobActorsOf(w) # {}],
                  "spawn_attempt")
    IN  IF outcome = "fail"
        THEN [w1 EXCEPT !.seq.spawned_actor = NoId]
        ELSE [w1 EXCEPT
                !.seq.spawned_actor = JobId(Leaf(w)),
                !.ghost.spawned =
                    [leaf |-> Leaf(w), requested |-> actor_label,
                     stored |-> IF outcome = "ok" THEN actor_label
                                ELSE HostRelabel(actor_label)],
                !.host.actors = @ \cup
                    { Actor(JobId(Leaf(w)),
                            IF outcome = "ok" THEN actor_label ELSE HostRelabel(actor_label)) }]

\* History: the animator of the world has started, and has not called its
\* continuation or still has a callback registered.
StillActive(w) ==
    /\ w.anim.exists
    /\ w.anim.started
    /\ \/ w.anim.finished_calls = 0
       \/ \E h \in w.host.registered : h.kind \in { "frame", "poll" }

\* History: the animator of the world found its actor and has frames left.
FramesLeft(w) ==
    /\ w.anim.exists
    /\ w.anim.has_target
    /\ w.anim.frame_index < w.anim.num_frames

\* render.py:702  the label the animator is told to look for
AnimatorLabelSceneFirst(asset_label, hdri_name, motion_type) ==
    hdri_name \o Sep \o asset_label \o Sep \o motion_type
AnimatorLabel(asset_label, hdri_name, motion_type) ==
    ActorLabel(asset_label, hdri_name, motion_type)

\* render.py:687-742
start_animation_render(w) ==
    LET config == SceneAt(w.seq.current_hdri_index)
        current_asset == config.assets[w.seq.current_asset_index + 1]
        motion_type == current_asset.motions[w.seq.current_motion_index + 1]
        actor_label == AnimatorLabel(current_asset.label, CurrentHdriName(w), motion_type)
        renderer == [NewAnim(Leaf(w), actor_label, config.num_frames, TRUE)
                        EXCEPT !.motion_type = motion_type]
    IN  AnimationRenderer_start(
            Log([w EXCEPT !.anim = renderer,
                          !.ghost.overlap = @ \/ StillActive(w),
                          !.ghost.early = @ \/ FramesLeft(w),
                          !.ghost.shots = <<>>, !.ghost.exports = 0,
                          !.ghost.moves = 0, !.ghost.removed = {}],
                "animator_started"))

RECURSIVE process_next_asset(_), process_next_hdri(_)

\* render.py:536  the index after a failed spawn
AfterSpawnFailureSkipTwo(motion_index) == motion_index + 2
AfterSpawnFailure(motion_index) == motion_index + 1

\* render.py:524  the index after the last motion of an asset
AfterMotionsDoneSkipsSibling(asset_index) == asset_index + 2
AfterMotionsDone(asset_index) == asset_index + 1

\* render.py:515-541
process_next_motion(w) ==
    LET config == SceneAt(w.seq.current_hdri_index)
        current_asset == config.assets[w.seq.current_asset_index + 1]
        motions == get_motions(current_asset)
        w0 == Log(w, "process_next_motion")
    IN  IF w.seq.current_motion_index >= Len(motions)
        THEN process_next_asset(
                [w0 EXCEPT !.seq.current_asset_index = AfterMotionsDone(@)])
        ELSE UNION {
                LET w1 == spawn_actor(cleanup_old_actors(w0), outcome)
                IN  IF w1.seq.spawned_actor = NoId
                    THEN process_next_motion(
                            [Log(w1, "spawn_failed") EXCEPT
                                !.seq.current_motion_index = AfterSpawnFailure(@)])
                    ELSE start_animation_render(w1)
                : outcome \in SpawnOutcomes }

\* render.py:491-513
process_next_asset(w) ==
    LET config == SceneAt(w.seq.current_hdri_index)
        assets == get_assets(config)
        w0 == Log(w, "process_next_asset")
    IN  IF w.seq.current_asset_index >= Len(assets)
        THEN process_next_hdri([w0 EXCEPT !.seq.current_hdri_index = @ + 1])
        ELSE process_next_motion([w0 EXCEPT !.seq.current_motion_index = 0])

\* Where _setup_hdri_backdrop can stop: at the class load (render.py:558-560),
\* at the spawn (render.py:580-584), at the texture load (render.py:587-590), or
\* nowhere.
BackdropOutcomes == { "ok", "class_failed", "spawn_failed", "texture_failed" }

\* render.py:563-565  the actors of the backdrop class
existing_backdrops_none(actors) == {}
existing_backdrops(actors) == { x \in actors : x.id.kind = "backdrop" }

\* render.py:543-601  returns the world and the boolean the method returns
setup_hdri_backdrop(w, outcome) ==
    LET without == w.host.actors \ existing_backdrops(w.host.actors)
        new == Actor(BackdropId(w.seq.current_hdri_index), BackdropLabel)
        called == [w EXCEPT !.ghost.backdrops =
                        Append(@, [s |-> w.seq.current_hdri_index,
                                   attempts |-> Len(w.ghost.attempts),
                                   active |-> StillActive(w),
                                   found |-> existing_backdrops(w.host.actors)])]
        failed == Log([called EXCEPT
                            !.ghost.backdropFailed = @ \cup { w.seq.current_hdri_index }],
                      "backdrop_failed")
    IN  CASE outcome = "class_failed" -> [w |-> failed, ok |-> FALSE]
          [] outcome = "spawn_failed" ->
                [w |-> [failed EXCEPT !.host.actors = without], ok |-> FALSE]
          [] outcome = "texture_failed" ->
                [w |-> [failed EXCEPT !.host.actors = without \cup { new }], ok |-> FALSE]
          [] OTHER ->
                [w |-> Log([called EXCEPT !.host.actors = without \cup { new }], "backdrop_ok"),
                 ok |-> TRUE]

\* render.py:603-616
setup_camera(w) ==
    IF ~SceneAt(w.seq.current_hdri_index).has_camera
    THEN Log([w EXCEPT !.ghost.cameraUnset = @ \cup { w.seq.current_hdri_index }],
             "camera_skipped")
    ELSE Log([w EXCEPT !.host.camera = w.seq.current_hdri_index], "camera_set")

\* render.py:459  whether the scene is skipped
SceneNeverSkipped(backdrop_ok, config) == FALSE
SceneSkipped(backdrop_ok, config) == ~backdrop_ok

\* render.py:461  the index after a skipped scene
AfterSceneSkip(hdri_index) == hdri_index + 1

\* render.py:437-470
process_next_hdri(w) ==
    IF w.seq.current_hdri_index >= Len(cfg.hdri_configs)
    THEN { Log([w EXCEPT !.ghost.completions = @ + 1], "completed") }
    ELSE
        LET index == w.seq.current_hdri_index
            config == SceneAt(index)
            w0 == Log(w, "process_next_hdri")
            w1 == IF index > 0
                  THEN cleanup_hdri_actors(w0, HdriName(SceneAt(index - 1), index - 1))
                  ELSE w0
        IN  UNION {
                LET r == setup_hdri_backdrop(w1, outcome)
                IN  IF SceneSkipped(r.ok, config)
                    THEN process_next_hdri(
                            [Log(r.w, "scene_skipped") EXCEPT
                                !.ghost.skipped = @ \cup { index },
                                !.seq.current_hdri_index = AfterSceneSkip(@)])
                    ELSE process_next_asset(
                            [setup_camera(r.w) EXCEPT
                                !.seq.current_asset_index = 0])
                : outcome \in BackdropOutcomes }

\* render.py:426  the handler has run before
AlreadyLoadedNever(map_loaded) == FALSE
AlreadyLoaded(map_loaded) == map_loaded

\* render.py:424-435
on_map_loaded(w) ==
    IF AlreadyLoaded(w.seq.map_loaded)
    THEN { Log(w, "already_loaded") }
    ELSE LET w1 == IF w.seq.map_load_handle # NoHandle
                   THEN [w EXCEPT !.host.registered = @ \ { w.seq.map_load_handle },
                                  !.seq.map_load_handle = NoHandle]
                   ELSE w
         IN  process_next_hdri(Log([w1 EXCEPT !.seq.map_loaded = TRUE], "map_loaded"))

\* render.py:421-422  load_map returned False: the error is logged
AfterLoadFailureRegisters(w, h) ==
    Log([w EXCEPT !.host.registered = @ \cup { h }, !.seq.map_load_handle = h],
        "map_load_failed")
AfterLoadFailure(w, h) == Log(w, "map_load_failed")

\* render.py:407-422 with level_utils.py:6-35  load_map returns True or False
start(w, load_ok) ==
    LET w0 == [w EXCEPT !.seq.started = TRUE]
        h == Handle("map", <<0, 0, 0>>, 0)
    IN  IF Len(cfg.hdri_configs) > 0
        THEN IF load_ok
             THEN Log([w0 EXCEPT !.host.registered = @ \cup { h },
                                 !.host.level_loads = @ + 1,
                                 !.seq.map_load_handle = h], "map_load_requested")
             ELSE AfterLoadFailure(w0, h)
        ELSE w0

\* render.py:794  the script gives up when the configuration could not be used
MainAbortsWithoutScenes(hdri_configs, output_directory) == hdri_configs = <<>>
MainAborts(hdri_configs, output_directory) ==
    hdri_configs = <<>> \/ output_directory = <<>>

\* render.py:790-799  the script: load the configuration, then construct the
\* renderer and start it, or log an error and stop
main(w, load_ok) ==
    IF MainAborts(cfg.hdri_configs, cfg.output_directory)
    THEN Log([w EXCEPT !.seq.started = TRUE], "aborted")
    ELSE start(w, load_ok)

\* What load_config_from_json returns as output_directory (render.py:770,
\* 778-788): a path, or the empty string.
OutputDirectories == { <<>>, <<"o", "u", "t">> }

\* ------------------------------------------------------------------ Init
NewSeq ==
    [ started |-> FALSE, current_hdri_index |-> 0, current_asset_index |-> 0,
      current_motion_index |-> 0, spawned_actor |-> NoId, map_loaded |-> FALSE,
      map_load_handle |-> NoHandle ]

NewHost(actors) ==
    [ actors |-> actors, registered |-> {}, files |-> {}, pending |-> <<>>,
      dataset |-> NoDataset, camera |-> -1,
      level_loads |-> 0 ]

NewGhost ==
    [ trace |-> <<>>, attempts |-> <<>>, backdropFailed |-> {}, skipped |-> {},
      cameraUnset |-> {}, completions |-> 0, shots |-> <<>>, exports |-> 0,
      moves |-> 0, removed |-> {}, overlap |-> FALSE,
      crowded |-> FALSE, early |-> FALSE,
      spawned |-> [leaf |-> <<0, 0, 0>>, requested |-> <<>>, stored |-> <<>>],
      backdrops |-> <<>> ]

InitBatch ==
    /\ cfg \in [mode : { "batch" }, hdri_configs : HdriConfigs,
               output_directory : OutputDirectories, drift : { 0 }]
    /\ seq = NewSeq
    /\ anim = NoAnim
    /\ host = NewHost({})
    /\ ghost = NewGhost

\* The animator on its own: AnimationRenderer(label, dir, callback, num_frames=n,
\* prune_last_frame=p) in a level that holds the actor, another actor, or none.
SingleLabel == ActorLabel(AssetLabelAt(1), SceneNameAt(1), MotionName(1))

InitSingle ==
    /\ cfg \in [mode : { "single" }, hdri_configs : { <<>> },
               output_directory : { <<"o", "u", "t">> }, drift : HostDrifts]
    /\ seq = NewSeq
    /\ \E n \in 0..MaxFrames, p \in BOOLEAN :
            anim = NewAnim(<<0, 0, 0>>, SingleLabel, n, p)
    /\ \E actors \in { {}, { Actor(JobId(<<0, 0, 0>>), SingleLabel) },
                       { Actor(JobId(<<0, 0, 0>>), HostRelabel(SingleLabel)) } } :
            host = NewHost(actors)
    /\ ghost = NewGhost

Init == InitBatch \/ InitSingle

\* --------------------------------------------------------------- actions
\* The script is run: render.py:790-799.
Start ==
    /\ cfg.mode = "batch"
    /\ ~seq.started
    /\ \E load_ok \in BOOLEAN : SetWorld(main(ClearTrace(World), load_ok))

\* renderer.start() of an animator used on its own
StartAnimator ==
    /\ cfg.mode = "single"
    /\ ~anim.started
    /\ \E w \in AnimationRenderer_start(ClearTrace(World)) : SetWorld(w)

\* The host's tick runs the registered map-load callback.
TickMapLoaded ==
    /\ seq.map_load_handle \in host.registered
    /\ \E w \in on_map_loaded(ClearTrace(World)) : SetWorld(w)

\* The host's tick runs the animator's registered frame callback.
TickFrame ==
    /\ anim.callback_handle \in host.registered
    /\ \E w \in take_screenshot_and_collect_data(ClearTrace(World)) : SetWorld(w)

\* The host's tick runs the animator's registered polling callback.
TickPoll ==
    /\ anim.delete_callback \in host.registered
    /\ \E w \in poll(ClearTrace(World)) : SetWorld(w)

\* The host finishes writing the oldest requested screenshot.
HostWriteScreenshot ==
    /\ host.pending # <<>>
    /\ host' = [host EXCEPT !.pending = Tail(@), !.files = @ \cup { Head(host.pending) }]
    /\ UNCHANGED <<cfg, seq, anim, ghost>>

Next == Start \/ StartAnimator \/ TickMapLoaded \/ TickFrame \/ TickPoll \/ HostWriteScreenshot

Spec == Init /\ [][Next]_vars

\* The animator on its own, given a motion_type (render.py:50, 74): the linear
\* pattern, a registered pattern that is not the linear one, and names that no
\* key of the registry equals.
MotionTypes == { Linear, StaticRotation, MotionName(1), HostRelabel(Linear), <<>> }

\* num_frames is any integer the caller passes (render.py:49, 68): also 0 and
\* a negative one.
FrameCounts == -1..MaxFrames

InitMotion ==
    /\ cfg \in [mode : { "single" }, hdri_configs : { <<>> },
               output_directory : { <<"o", "u", "t">> }, drift : HostDrifts]
    /\ seq = NewSeq
    /\ \E n \in FrameCounts, p \in BOOLEAN, t \in MotionTypes :
            anim = [NewAnim(<<0, 0, 0>>, SingleLabel, n, p) EXCEPT !.motion_type = t]
    /\ host = NewHost({ Actor(JobId(<<0, 0, 0>>), SingleLabel) })
    /\ ghost = NewGhost

NextSingle == StartAnimator \/ TickFrame \/ TickPoll \/ HostWriteScreenshot

MotionSpec == InitMotion /\ [][NextSingle]_vars

\* A batch in a level that holds an actor before the run, with a first scene of
\* any name: a name that is in no other label, the first word of the backdrop's
\* label, and the first letters of the label of the actor of the level.
MaxLevelNodes == 4

LevelId == [kind |-> "level", s |-> 0, a |-> 0, m |-> 0]
LevelLabel == <<"F", "l", "o", "o", "r">>
LevelActors == { Actor(LevelId, LevelLabel) }

SceneNames == { SceneNameAt(0), <<"H", "D", "R", "I">>, <<"F", "l">> }

Renamed(hdri_configs, name) ==
    IF hdri_configs = <<>> THEN hdri_configs ELSE [hdri_configs EXCEPT ![1].name = name]

InitLevel ==
    /\ cfg \in [mode : { "batch" },
               hdri_configs : { Renamed(c, name) :
                                    c \in ConfigsUpTo(MaxLevelNodes), name \in SceneNames },
               output_directory : { <<"o", "u", "t">> }, drift : { 0 }]
    /\ seq = NewSeq
    /\ anim = NoAnim
    /\ host = NewHost(LevelActors)
    /\ ghost = NewGhost

\* Every registered callback is one the program still holds the handle of.
NoStaleCallbacks ==
    host.registered \subseteq
        { seq.map_load_handle, anim.callback_handle, anim.delete_callback }

\* ------------------------------------------------------------ fair ticks
\* The host runs every registered slate post-tick callback on each of its ticks,
\* and the script calls start().  The fairness of a tick is weak fairness of its
\* action written out, the action's enabling condition being its guard (each tick
\* handler changes the state).
\* A step in which a registered callback ran, told by what the callback always
\* does: the wait for the level and the frame callback unregister their handle
\* (render.py:429-431, render.py:168), the poll unregisters its handle or
\* counts an attempt (render.py:243-253).  No other step does any of these.
MapLoadedRan ==
    /\ seq.map_load_handle \in host.registered
    /\ seq.map_load_handle \notin host'.registered
FrameRan ==
    /\ anim.callback_handle \in host.registered
    /\ anim.callback_handle \notin host'.registered
PollRan ==
    /\ anim.delete_callback \in host.registered
    /\ \/ anim.delete_callback \notin host'.registered
       \/ anim'.delete_attempts = anim.delete_attempts + 1

\* The steps told by their effects are the steps of the tick actions.
TicksToldByEffect ==
    /\ MapLoadedRan <=> <<TickMapLoaded>>_vars
    /\ FrameRan <=> <<TickFrame>>_vars
    /\ PollRan <=> <<TickPoll>>_vars

TickFairness ==
    /\ ([]<>(seq.map_load_handle \notin host.registered)) \/ ([]<><<MapLoadedRan>>_vars)
    /\ ([]<>(anim.callback_handle \notin host.registered)) \/ ([]<><<FrameRan>>_vars)
    /\ ([]<>(anim.delete_callback \notin host.registered)) \/ ([]<><<PollRan>>_vars)

InitLive ==
    /\ cfg \in [mode : { "batch" }, hdri_configs : ConfigsUpTo(MaxLiveNodes),
               output_directory : OutputDirectories, drift : { 0 }]
    /\ seq = NewSeq
    /\ anim = NoAnim
    /\ host = NewHost({})
    /\ ghost = NewGhost

NextBatch == Start \/ TickMapLoaded \/ TickFrame \/ TickPoll \/ HostWriteScreenshot

FairSpec == InitLive /\ [][NextBatch]_vars /\ WF_vars(Start) /\ TickFairness

\* The batch in a level that holds an actor before the run.
LevelSpec == InitLevel /\ [][NextBatch]_vars

\* The host calls _on_map_loaded again after its first run: a tick that had
\* picked the callback up before it was unregistered, or a registration whose
\* handle the object no longer holds (render.py:420 overwrites the handle,
\* render.py:429-431 unregisters the one it holds).
TickMapLoadedAgain ==
    /\ cfg.mode = "batch"
    /\ seq.map_loaded
    /\ \E w \in on_map_loaded(ClearTrace(World)) : SetWorld(w)

NextWithLateTick == NextBatch \/ TickMapLoadedAgain

LateTickSpec == InitLive /\ [][NextWithLateTick]_vars

\* ------------------------------------------------------------ properties
RECURSIVE Flatten(_)
Flatten(seqs) == IF seqs = <<>> THEN <<>> ELSE Head(seqs) \o Flatten(Tail(seqs))

IsPrefix(p, q) == Len(p) <= Len(q) /\ SubSeq(q, 1, Len(p)) = p

RECURSIVE Restrict(_, _)
Restrict(leaves, s) ==
    IF leaves = <<>> THEN <<>>
    ELSE IF Head(leaves)[1] = s THEN <<Head(leaves)>> \o Restrict(Tail(leaves), s)
    ELSE Restrict(Tail(leaves), s)

\* The leaves of the configuration in nested declared order: scenes, then the
\* assets of a scene, then the motions of an asset.
LeavesOfAsset(s, a) ==
    [m \in 1..Len(SceneAt(s).assets[a + 1].motions) |-> << s, a, m - 1 >>]
LeavesOfScene(s) ==
    Flatten([a \in 1..Len(SceneAt(s).assets) |-> LeavesOfAsset(s, a - 1)])
LeavesExcept(skip) ==
    Flatten([s \in 1..Len(cfg.hdri_configs) |->
                IF (s - 1) \in skip THEN <<>> ELSE LeavesOfScene(s - 1)])

EventLeaf(ev) == << ev.s, ev.a, ev.m >>
Events(e) == { i \in 1..Len(ghost.trace) : ghost.trace[i].e = e }
AnimatorHandles == { h \in host.registered : h.kind \in { "frame", "poll" } }
FrameIds(frames) == [i \in 1..Len(frames) |-> frames[i].frame_id]
FrameIndices(frame_data) == [i \in 1..Len(frame_data) |-> frame_data[i].frame_index]
UpTo(n) == [i \in 1..n |-> i - 1]
Finished == anim.exists /\ anim.finished_calls >= 1

\* The Sequencer's completed state: the scene index has run past the last scene.
Completed ==
    /\ cfg.mode = "batch"
    /\ seq.map_loaded
    /\ seq.current_hdri_index >= Len(cfg.hdri_configs)

\* C1: in a run whose level load and every backdrop setup succeeded, the leaves at
\* which an actor spawn has been attempted are, in order and each once, the
\* leaves of the configuration in nested declared order: a prefix of that list
\* while the run is under way and the whole list once it has completed, whatever
\* spawns failed and whatever actors were not found.
C1_DeclaredOrder ==
    (cfg.mode = "batch" /\ ghost.backdropFailed = {}) =>
        /\ IsPrefix(ghost.attempts, LeavesExcept({}))
        /\ Completed => ghost.attempts = LeavesExcept({})

C1_Witness ==
    /\ Completed
    /\ ghost.backdropFailed = {}
    /\ Len(cfg.hdri_configs) = 2
    /\ Len(ghost.attempts) >= 3
    /\ Events("spawn_failed") # {}

\* C2: the continuation of an animator run is called exactly once: never twice,
\* never while a callback of the run is still registered, and always by the time
\* the run has started and has no callback left, whichever way the run ended.
C2_FinishedOnce ==
    anim.exists =>
        /\ anim.finished_calls <= 1
        /\ anim.finished_calls = 1 => AnimatorHandles = {}
        /\ (anim.started /\ AnimatorHandles = {}) => anim.finished_calls = 1
        /\ ~anim.started => anim.finished_calls = 0

C2_Witness ==
    /\ anim.exists
    /\ anim.finished_calls = 1
    /\ anim.path = "remove_failed"
    /\ ~host.dataset.written

\* start() loaded the level and registered the wait for it (render.py:419-422).
LevelLoaded == seq.map_load_handle # NoHandle

C4_PruneDropsLast ==
    (anim.exists /\ anim.has_target /\ anim.prune_last_frame /\ anim.num_frames > 1) =>
        /\ ghost.exports >= 1 =>
                /\ FrameIndices(anim.frame_data) = UpTo(anim.num_frames - 1)
                /\ anim.last_frame_path = anim.num_frames - 1
        /\ Finished =>
                /\ ghost.exports = 1
                /\ FrameIndices(anim.frame_data) = UpTo(anim.num_frames - 1)
                /\ host.dataset.written =>
                        FrameIds(host.dataset.frames) = UpTo(anim.num_frames - 1)

C4_Witness ==
    /\ Finished
    /\ anim.has_target
    /\ anim.prune_last_frame
    /\ anim.num_frames = 3
    /\ host.dataset.written
    /\ Len(host.dataset.frames) = 2

\* C5: with pruning disabled and at least two frames, the finished job holds and
\* exports exactly the records of frames 0..N-1, and deletes nothing.
C5_NoPruneKeepsAll ==
    (Finished /\ anim.has_target /\ ~anim.prune_last_frame /\ anim.num_frames >= 2) =>
        /\ ghost.exports = 1
        /\ FrameIndices(anim.frame_data) = UpTo(anim.num_frames)
        /\ host.dataset.written => FrameIds(host.dataset.frames) = UpTo(anim.num_frames)
        /\ ghost.removed = {}
        /\ anim.delete_callback = NoHandle

C5_Witness ==
    /\ Finished
    /\ anim.has_target
    /\ ~anim.prune_last_frame
    /\ anim.num_frames = 3
    /\ host.dataset.written
    /\ Len(host.dataset.frames) = 3

\* C6: a job of one frame captures one record (frame 0, progress 0, timestamp 0)
\* and exports exactly that record with pruning on or off; the prune step is
\* skipped, no poll callback is ever registered and no file is deleted.
C6_SingleFrame ==
    (anim.exists /\ anim.has_target /\ anim.num_frames = 1) =>
        /\ anim.delete_callback = NoHandle
        /\ \A h \in host.registered : h.kind # "poll"
        /\ anim.last_frame_path = NoPath
        /\ anim.delete_attempts = 0
        /\ ghost.removed = {}
        /\ Len(anim.frame_data) <= 1
        /\ Finished =>
                /\ anim.path = "no_prune"
                /\ ghost.exports = 1
                /\ Len(anim.frame_data) = 1
                /\ anim.frame_data[1].frame_index = 0
                /\ FracEq(anim.frame_data[1].timestamp, Frac(0, 1))
                /\ anim.frame_data[1].pose.frame = 0
                /\ FracEq(anim.frame_data[1].pose.alpha, Frac(0, 1))
                /\ host.dataset.written => FrameIds(host.dataset.frames) = << 0 >>

C6_Witness ==
    /\ Finished
    /\ anim.has_target
    /\ anim.num_frames = 1
    /\ anim.prune_last_frame
    /\ host.dataset.written
    /\ host.pending = <<>>

\* C7: when no actor carries the label, start() calls the continuation at once:
\* the job registers no callback, moves no actor, takes no screenshot, records
\* nothing and writes no dataset, and the Sequencer goes on to the next leaf in
\* the same step.
C7_ActorNotFound ==
    /\ (anim.exists /\ anim.started /\ ~anim.has_target) =>
            /\ anim.finished_calls = 1
            /\ anim.path = "not_found"
            /\ anim.callback_handle = NoHandle
            /\ anim.delete_callback = NoHandle
            /\ AnimatorHandles = {}
            /\ anim.frame_data = <<>>
            /\ anim.frame_index = 0
            /\ ghost.moves = 0
            /\ ghost.shots = <<>>
            /\ ghost.exports = 0
            /\ ghost.removed = {}
            /\ \A x \in host.actors : x.pose = InitialPose \/ x.id # JobId(anim.leaf)
            /\ cfg.mode = "single" => (~host.dataset.written /\ host.pending = <<>>)
    /\ \A i \in Events("not_found") :
            /\ i + 1 <= Len(ghost.trace)
            /\ ghost.trace[i + 1].e = "on_finished"
            /\ cfg.mode = "batch" =>
                    /\ i + 3 <= Len(ghost.trace)
                    /\ ghost.trace[i + 2].e = "on_render_finished"
                    /\ ghost.trace[i + 3].e = "process_next_motion"
                    /\ EventLeaf(ghost.trace[i + 3]) =
                            << ghost.trace[i].s, ghost.trace[i].a, ghost.trace[i].m + 1 >>

C7_Witness ==
    /\ cfg.mode = "batch"
    /\ \E i \in Events("not_found"), j \in Events("spawn_attempt") :
            /\ i < j
            /\ EventLeaf(ghost.trace[j]) =
                    << ghost.trace[i].s, ghost.trace[i].a, ghost.trace[i].m + 1 >>

\* The attempt that follows the attempt at a leaf, in the order of the
\* configuration without the skipped scenes.
FollowsInOrder(leaf, next) ==
    \E k \in 1..(Len(LeavesExcept(ghost.skipped)) - 1) :
        /\ LeavesExcept(ghost.skipped)[k] = leaf
        /\ LeavesExcept(ghost.skipped)[k + 1] = next

\* C8: a failed spawn starts no animator for its leaf and advances the motion
\* index by exactly one, the scene and asset indices staying as they are, so
\* that the next attempt is at the next leaf in declared order.
C8_SpawnFailure ==
    \A i \in Events("spawn_failed") :
        /\ i + 1 <= Len(ghost.trace)
        /\ ghost.trace[i + 1].e = "process_next_motion"
        /\ EventLeaf(ghost.trace[i + 1]) =
                << ghost.trace[i].s, ghost.trace[i].a, ghost.trace[i].m + 1 >>
        /\ \A j \in Events("animator_started") :
                EventLeaf(ghost.trace[j]) # EventLeaf(ghost.trace[i])
        /\ anim.exists => anim.leaf # EventLeaf(ghost.trace[i])
        /\ \A x \in host.actors : x.id # JobId(EventLeaf(ghost.trace[i]))
        /\ \A j \in Events("spawn_attempt") :
                (j > i /\ \A k \in Events("spawn_attempt") : k <= i \/ k >= j) =>
                    FollowsInOrder(EventLeaf(ghost.trace[i]), EventLeaf(ghost.trace[j]))

C8_Witness ==
    \E i \in Events("spawn_failed"), j \in Events("spawn_attempt") :
        /\ i < j
        /\ ghost.trace[i].m = 0
        /\ EventLeaf(ghost.trace[j]) = << ghost.trace[i].s, ghost.trace[i].a, 1 >>

\* C9: a scene whose backdrop setup fails is skipped whole: no actor is spawned
\* and no animator started for any of its leaves, the scene index moves on by
\* one, the next scene is set up next (or the run completes when the scene was
\* the last), and the leaves of the other scenes are attempted as usual.
C9_BackdropFailureSkipsScene ==
    /\ ghost.skipped = ghost.backdropFailed
    /\ \A k \in 1..Len(ghost.attempts) : ghost.attempts[k][1] \notin ghost.backdropFailed
    /\ anim.exists => anim.leaf[1] \notin ghost.backdropFailed
    /\ \A x \in host.actors : x.id.kind = "job" => x.id.s \notin ghost.backdropFailed
    /\ cfg.mode = "batch" => IsPrefix(ghost.attempts, LeavesExcept(ghost.backdropFailed))
    /\ Completed => ghost.attempts = LeavesExcept(ghost.backdropFailed)
    /\ \A i \in Events("backdrop_failed") :
            /\ i + 2 <= Len(ghost.trace)
            /\ ghost.trace[i + 1].e = "scene_skipped"
            /\ ghost.trace[i + 2].s = ghost.trace[i].s + 1
            /\ IF ghost.trace[i].s + 1 < Len(cfg.hdri_configs)
               THEN ghost.trace[i + 2].e = "process_next_hdri"
               ELSE ghost.trace[i + 2].e = "completed"

C9_Witness ==
    /\ Completed
    /\ ghost.backdropFailed = { 0 }
    /\ LeavesOfScene(0) # <<>>
    /\ ghost.attempts # <<>>

\* C10 as stated: a scene whose camera was not set up is skipped like a scene
\* whose backdrop failed, none of its leaves being attempted.
C10_SkippedLikeBackdropFailure ==
    \A k \in 1..Len(ghost.attempts) : ghost.attempts[k][1] \notin ghost.cameraUnset

\* C10: camera setup has no failing outcome.  A scene without camera_config
\* leaves the camera where it was and is not skipped: once the Sequencer has
\* moved past such a scene whose backdrop was set up, every leaf of the scene
\* has been attempted, in declared order.
C10_SceneWithoutCameraProceeds ==
    /\ ghost.cameraUnset \cap ghost.skipped = {}
    /\ \A s \in 0..(Len(cfg.hdri_configs) - 1) :
            (/\ ~SceneAt(s).has_camera
             /\ s \notin ghost.backdropFailed
             /\ seq.map_loaded
             /\ seq.current_hdri_index > s) =>
                /\ s \in ghost.cameraUnset
                /\ host.camera # s
                /\ Restrict(ghost.attempts, s) = LeavesOfScene(s)
    /\ \A i \in Events("camera_skipped") :
            /\ i + 1 <= Len(ghost.trace)
            /\ ghost.trace[i + 1].e = "process_next_asset"
            /\ ghost.trace[i + 1].s = ghost.trace[i].s
            /\ ghost.trace[i + 1].a = 0

C10_Witness ==
    /\ Completed
    /\ ghost.cameraUnset = { 1 }
    /\ 1 \notin ghost.backdropFailed
    /\ Restrict(ghost.attempts, 1) # <<>>
    /\ Restrict(ghost.attempts, 1) = LeavesOfScene(1)

Polling == anim.exists /\ anim.delete_callback \in host.registered

C11_Bounded ==
    anim.exists =>
        /\ anim.delete_attempts \in 0..(MaxDeleteAttempts + 1)
        /\ anim.delete_attempts = MaxDeleteAttempts + 1 <=> anim.path = "timeout"
        /\ Polling => (ghost.exports = 0 /\ anim.finished_calls = 0)
        /\ anim.path = "timeout" =>
                /\ ~Polling
                /\ anim.delete_callback = NoHandle
                /\ ghost.exports = 1
                /\ anim.finished_calls = 1
                /\ ghost.removed = {}

C11_OncePerTick ==
    (anim.exists /\ anim'.exists /\ anim'.leaf = anim.leaf /\ anim'.started = anim.started) =>
        \/ anim'.delete_attempts = anim.delete_attempts
        \/ /\ anim'.delete_attempts = anim.delete_attempts + 1
           /\ Polling
           /\ anim.last_frame_path \notin host.files

\* C11: while the pruned frame's image is not visible the animator makes one
\* existence check per tick of its poll callback, each adding one to the attempt
\* counter; the counter never passes 61, and on the 61st failed check the poll
\* is unregistered, the dataset is exported, nothing has been deleted and the
\* continuation is called; polling never lasts forever, so the export is not
\* blocked.
C11_PruneTimeout ==
    /\ []C11_Bounded
    /\ [][C11_OncePerTick]_vars
    /\ []<>(~Polling)

C11_Witness ==
    /\ anim.exists
    /\ anim.path = "timeout"
    /\ anim.delete_attempts = MaxDeleteAttempts + 1
    /\ anim.last_frame_path \in host.files
    /\ ghost.exports = 1

\* What the tick callbacks registered in the current state can produce.
TickResults ==
    (IF anim.callback_handle \in host.registered
     THEN take_screenshot_and_collect_data(ClearTrace(World)) ELSE {})
    \cup
    (IF anim.delete_callback \in host.registered
     THEN poll(ClearTrace(World)) ELSE {})

ExportEvents == { "export_written", "export_failed" }
HasEvent(w, e) == \E i \in 1..Len(w.ghost.trace) : w.ghost.trace[i].e = e

\* A result of a step without the dataset file and without the outcome of the
\* export in the log.
BesidesExport(w) ==
    [ seq |-> w.seq, anim |-> w.anim,
      host |-> [w.host EXCEPT !.dataset = NoDataset],
      ghost |-> [w.ghost EXCEPT !.trace =
                    [i \in 1..Len(w.ghost.trace) |->
                        IF w.ghost.trace[i].e \in ExportEvents
                        THEN [w.ghost.trace[i] EXCEPT !.e = "export"]
                        ELSE w.ghost.trace[i]]] ]

\* C12: a failed write of the dataset is logged and is followed at once by the
\* one call of the continuation, and whatever a step does after a failed write
\* (indices, animator, actors, callbacks, spawn attempts) is what it does after
\* a successful one: the two differ only in the dataset file.
C12_ExportFailure ==
    /\ \A i \in Events("export_failed") :
            /\ i + 1 <= Len(ghost.trace)
            /\ ghost.trace[i + 1].e = "on_finished"
            /\ \A j \in Events("export_failed") \cup Events("export_written") : j = i
            /\ cfg.mode = "batch" =>
                    /\ i + 3 <= Len(ghost.trace)
                    /\ ghost.trace[i + 2].e = "on_render_finished"
                    /\ ghost.trace[i + 3].e = "process_next_motion"
                    /\ EventLeaf(ghost.trace[i + 3]) =
                            << ghost.trace[i].s, ghost.trace[i].a, ghost.trace[i].m + 1 >>
    /\ { BesidesExport(w) : w \in { x \in TickResults : HasEvent(x, "export_failed") } }
         = { BesidesExport(w) : w \in { x \in TickResults : HasEvent(x, "export_written") } }

C12_Witness ==
    /\ cfg.mode = "batch"
    /\ \E i \in Events("export_failed"), j \in Events("spawn_attempt") :
            /\ i < j
            /\ EventLeaf(ghost.trace[j]) =
                    << ghost.trace[i].s, ghost.trace[i].a, ghost.trace[i].m + 1 >>

C14_OneActiveAnimator ==
    /\ ~ghost.overlap
    /\ Cardinality(AnimatorHandles) <= 1
    /\ \A h \in AnimatorHandles :
            /\ anim.exists
            /\ h.leaf = anim.leaf
            /\ h \in { anim.callback_handle, anim.delete_callback }
            /\ anim.started
            /\ anim.finished_calls = 0
            /\ host.registered = { h }
    /\ \A j \in Events("animator_started") :
            \A i \in Events("animator_started") :
                i < j => \E k \in Events("on_finished") : i < k /\ k < j

C14_Witness ==
    /\ cfg.mode = "batch"
    /\ AnimatorHandles # {}
    /\ Len(ghost.attempts) >= 2
    /\ anim.leaf = ghost.attempts[Len(ghost.attempts)]
    /\ Events("on_finished") # {}
    /\ Events("animator_started") # {}

C16_DestroyedPastScene ==
    cfg.mode = "batch" =>
        \A x \in JobActorsOf(World) : ~(seq.current_hdri_index > x.id.s)

\* C16, what the cleanups achieve: the actors of a scene are destroyed when the
\* next scene is entered; nothing destroys the actors of the last scene, so a
\* job actor of a scene the Sequencer has moved past is one of the last scene,
\* in the completed state.
C16_DestroyedExceptLastScene ==
    cfg.mode = "batch" =>
        \A x \in JobActorsOf(World) :
            seq.current_hdri_index > x.id.s =>
                /\ Completed
                /\ x.id.s = Len(cfg.hdri_configs) - 1

C16_Witness ==
    /\ Completed
    /\ host.registered = {}
    /\ \E x \in JobActorsOf(World) : x.id.s = Len(cfg.hdri_configs) - 1

C17_NothingRegistered == Completed => host.registered = {}
C17_StaysCompleted == Completed => (Completed' /\ host.registered' = {})

\* C17: in the completed state no tick callback is registered, neither the wait
\* for the level nor a frame nor a prune poll, and every later state is a
\* completed state with no callback registered.
C17_NoCallbackAfterCompletion ==
    /\ []C17_NothingRegistered
    /\ [][C17_StaysCompleted]_vars

C17_Witness ==
    /\ Completed
    /\ host.registered = {}
    /\ ghost.completions = 1
    /\ anim.exists
    /\ anim.path = "pruned"
    /\ host.pending = <<>>

C18_InOrder ==
    anim.exists =>
        /\ FrameIndices(anim.frame_data) = UpTo(Len(anim.frame_data))
        /\ ~ghost.early
        /\ \A x \in host.actors :
                (anim.has_target /\ x.id = anim.target_actor) =>
                    /\ x.pose.frame <= Len(anim.frame_data)
                    /\ x.pose.frame < anim.num_frames \/ anim.num_frames = 0
                    /\ anim.callback_handle \in host.registered =>
                            /\ x.pose.frame = anim.frame_index
                            /\ Len(anim.frame_data) = anim.frame_index

C18_OnePerTick ==
    anim'.exists =>
        IF anim.exists /\ anim'.leaf = anim.leaf /\ anim.has_target
        THEN \/ anim'.frame_data = anim.frame_data
             \/ /\ anim.callback_handle \in host.registered
                /\ Len(anim'.frame_data) = Len(anim.frame_data) + 1
                /\ SubSeq(anim'.frame_data, 1, Len(anim.frame_data)) = anim.frame_data
        ELSE anim'.frame_data = <<>>

\* C18: the records of a job carry the indices 0, 1, 2, ... in the order they
\* were appended; a step appends at most one record, in a run of the frame
\* callback; the pose of frame i+1 is applied only when the records of frames
\* 0..i are in the list; and an animator is constructed only when the one
\* before it has no frame left.
C18_FrameOrder ==
    /\ []C18_InOrder
    /\ [][C18_OnePerTick]_vars

C18_Witness ==
    /\ anim.exists
    /\ anim.num_frames = 3
    /\ anim.frame_index = 2
    /\ anim.callback_handle \in host.registered
    /\ FrameIndices(anim.frame_data) = << 0, 1 >>
    /\ \E x \in host.actors : x.id = anim.target_actor /\ x.pose.frame = 2

PreviousPositionOf(i) ==
    IF i = 1 THEN anim.start_position ELSE anim.frame_data[i - 1].pose.location

SquaredNorm(v) ==
    FracAdd(FracAdd(FracMul(v[1], v[1]), FracMul(v[2], v[2])), FracMul(v[3], v[3]))

\* C19: in every record the displacement is the position read back at that
\* frame minus the position read back at the frame before, the start position
\* snapshot for frame 0, and the magnitude is the square root of the sum of the
\* squares of the displacement's components.
C19_Displacement ==
    (anim.exists /\ anim.has_target) =>
        \A i \in 1..Len(anim.frame_data) :
            /\ VectorEq(anim.frame_data[i].motion.displacement,
                        VectorSub(anim.frame_data[i].pose.location, PreviousPositionOf(i)))
            /\ \E q \in { anim.frame_data[i].motion.displacement_magnitude.sqrt_of } :
                    FracEq(q, SquaredNorm(VectorSub(anim.frame_data[i].pose.location,
                                                    PreviousPositionOf(i))))

C19_Witness ==
    /\ anim.exists
    /\ anim.has_target
    /\ Len(anim.frame_data) = 3
    /\ ~VectorEq(anim.frame_data[3].pose.location, anim.frame_data[2].pose.location)
    /\ ~VectorEq(anim.frame_data[2].pose.location, anim.start_position)
    /\ ~FracEq(anim.frame_data[3].motion.displacement[1], Frac(0, 1))

LabelOfLeaf(leaf) ==
    ActorLabel(SceneAt(leaf[1]).assets[leaf[2] + 1].label,
               HdriName(SceneAt(leaf[1]), leaf[1]),
               SceneAt(leaf[1]).assets[leaf[2] + 1].motions[leaf[3] + 1])

AppliedFrame == PoseOf(host.actors, anim.target_actor).frame

Suspended == anim.exists /\ anim.has_target /\ anim.callback_handle \in host.registered

\* C22 as stated: the screenshot of frame i is requested after pose i is applied
\* and before the animator suspends, so while the animator waits for the tick
\* with pose i applied the screenshot of frame i has been requested, and the
\* step that applies pose i+1 starts from a state in which it has been.
C22_ShotBeforeSuspend ==
    Suspended => \E k \in 1..Len(ghost.shots) : ghost.shots[k] = AppliedFrame

C22_Invariant ==
    (anim.exists /\ anim.has_target) =>
        /\ ghost.shots = UpTo(anim.frame_index)
        /\ Suspended =>
                /\ AppliedFrame = anim.frame_index
                /\ Len(anim.frame_data) = anim.frame_index

C22_Step ==
    (anim.exists /\ anim'.exists /\ anim'.leaf = anim.leaf /\ anim.has_target
        /\ ghost'.shots # ghost.shots) =>
        /\ Suspended
        /\ ghost'.shots = Append(ghost.shots, AppliedFrame)
        /\ anim'.frame_index = AppliedFrame + 1
        /\ anim'.frame_index < anim.num_frames =>
                /\ anim'.callback_handle \in host'.registered
                /\ PoseOf(host'.actors, anim'.target_actor).frame = AppliedFrame + 1
                /\ anim'.frame_data[AppliedFrame + 1].frame_index = AppliedFrame
                /\ anim'.frame_data[AppliedFrame + 1].pose =
                        PoseOf(host.actors, anim.target_actor)

\* C22, the order in the code: pose i is applied and the animator suspends; on
\* the next tick the callback reads the pose back, appends record i, requests
\* the screenshot of frame i and, when a frame is left, applies pose i+1 and
\* suspends again, all in that one callback.  While the animator waits with
\* pose i applied, the screenshots requested are those of frames 0..i-1.
C22_ShotAfterResume ==
    /\ []C22_Invariant
    /\ [][C22_Step]_vars

C22_Witness ==
    /\ Suspended
    /\ anim.num_frames = 3
    /\ AppliedFrame = 2
    /\ ghost.shots = << 0, 1 >>
    /\ Len(anim.frame_data) = 2

\* C23 as stated: no two leaves are started within one host tick: the events of
\* one callback hold at most one spawn attempt, whatever its outcome.
C23_OneLeafPerTick == Cardinality(Events("spawn_attempt")) <= 1

\* C23, what the code does: a leaf whose animator found its actor ends the
\* callback, and the next leaf is decided in a later one (the callback in which
\* the animator finishes); a leaf whose spawn failed or whose actor was not
\* found is followed by the next leaf within the same callback.
C23_FreshTickAfterRenderedLeaf ==
    /\ \A i \in Events("spawn_attempt") : \A j \in Events("spawn_attempt") :
            i < j =>
                \E k \in Events("spawn_failed") \cup Events("not_found") :
                    /\ i < k
                    /\ k < j
                    /\ EventLeaf(ghost.trace[k]) = EventLeaf(ghost.trace[i])
    /\ \A i \in Events("animator_started") :
            (\A k \in Events("not_found") :
                EventLeaf(ghost.trace[k]) # EventLeaf(ghost.trace[i])) =>
                    /\ i = Len(ghost.trace)
                    /\ anim.has_target
                    /\ anim.leaf = EventLeaf(ghost.trace[i])
                    /\ anim.callback_handle \in host.registered
    /\ \A i \in Events("spawn_failed") \cup Events("not_found") :
            i < Len(ghost.trace)

C23_Witness ==
    /\ Cardinality(Events("spawn_attempt")) = 3
    /\ Events("spawn_failed") # {}
    /\ Events("not_found") # {}
    /\ Events("on_finished") # {}
    /\ ghost.trace[1].e = "export_written"
    /\ anim.has_target

Min(x, y) == IF x < y THEN x ELSE y

\* The leaves of the scenes before scene s that were not skipped.
LeavesBefore(s) == LeavesExcept(ghost.skipped \cup s..Len(cfg.hdri_configs))

\* C24: the level is loaded at most once, in start(), and has been loaded when a
\* scene is set up; the backdrop setups are those of scenes 0, 1, 2, ... up to
\* the current scene, one each; the setup of a scene takes place when every
\* leaf of the scenes before it has been attempted and no animator is running,
\* and before any attempt at a leaf of the scene; the camera is positioned only
\* right after a backdrop setup of the same scene that succeeded.
C24_SetupOncePerScene ==
    cfg.mode = "batch" =>
        /\ host.level_loads <= 1
        /\ (seq.map_loaded \/ ghost.backdrops # <<>>) => host.level_loads = 1
        /\ Events("map_load_requested") # {} => ghost.backdrops = <<>>
        /\ [k \in 1..Len(ghost.backdrops) |-> ghost.backdrops[k].s] =
                IF seq.map_loaded
                THEN UpTo(Min(seq.current_hdri_index + 1, Len(cfg.hdri_configs)))
                ELSE <<>>
        /\ \A k \in 1..Len(ghost.backdrops) :
                /\ ~ghost.backdrops[k].active
                /\ ghost.backdrops[k].attempts <= Len(ghost.attempts)
                /\ SubSeq(ghost.attempts, 1, ghost.backdrops[k].attempts) =
                        LeavesBefore(ghost.backdrops[k].s)
        /\ host.camera >= 0 =>
                /\ host.camera \notin ghost.backdropFailed
                /\ \E k \in 1..Len(ghost.backdrops) : ghost.backdrops[k].s = host.camera
        /\ \A i \in Events("camera_set") :
                /\ i > 1
                /\ ghost.trace[i - 1].e = "backdrop_ok"
                /\ ghost.trace[i - 1].s = ghost.trace[i].s

C24_Witness ==
    /\ Completed
    /\ Len(ghost.backdrops) = 2
    /\ ghost.backdropFailed = {}
    /\ ghost.backdrops[2].attempts >= 1
    /\ Len(ghost.attempts) > ghost.backdrops[2].attempts
    /\ host.camera = 0
    /\ host.level_loads = 1

\* C25: the level holds at most one backdrop actor, spawned by the setup of a
\* scene reached so far; while a scene is being rendered it is the backdrop of
\* that scene; a setup that gets past the class load destroys the backdrop in
\* the level before it spawns, also the one left by a setup that failed after
\* its spawn.
C25_OneBackdrop ==
    /\ Cardinality(existing_backdrops(host.actors)) <= 1
    /\ \A x \in existing_backdrops(host.actors) :
            /\ x = Actor(BackdropId(x.id.s), BackdropLabel)
            /\ \E k \in 1..Len(ghost.backdrops) : ghost.backdrops[k].s = x.id.s
    /\ (cfg.mode = "batch" /\ seq.map_loaded /\ ~Completed) =>
            existing_backdrops(host.actors) =
                { Actor(BackdropId(seq.current_hdri_index), BackdropLabel) }
    /\ \A k \in 1..Len(ghost.backdrops) :
            /\ Cardinality(ghost.backdrops[k].found) <= 1
            /\ \A x \in ghost.backdrops[k].found :
                    /\ k > 1
                    /\ x.id.s < ghost.backdrops[k].s
                    /\ ghost.backdrops[k].s \notin ghost.backdropFailed =>
                            x \notin host.actors

C25_Witness ==
    /\ seq.map_loaded
    /\ seq.current_hdri_index = 1
    /\ ghost.backdropFailed = { 0 }
    /\ Len(ghost.backdrops) = 2
    /\ ghost.backdrops[2].found = { Actor(BackdropId(0), BackdropLabel) }
    /\ existing_backdrops(host.actors) = { Actor(BackdropId(1), BackdropLabel) }
    /\ AnimatorHandles # {}

\* Whether pruning applies to the job that logged the event: pruning is on and
\* the job has more than one frame (render.py:212, render.py:726).
PruningJobAt(ev) ==
    IF cfg.mode = "batch" THEN SceneAt(ev.s).num_frames > 1
    ELSE anim.prune_last_frame /\ anim.num_frames > 1

PruneResolved == { "file_removed", "remove_failed", "prune_timeout" }

C26_Invariant ==
    /\ Polling => (ghost.exports = 0 /\ anim.finished_calls = 0 /\ ~host.dataset.written)
    /\ (anim.exists /\ anim.has_target /\ anim.prune_last_frame /\ anim.num_frames > 1
            /\ ghost.exports >= 1) =>
            /\ anim.path \in { "pruned", "remove_failed", "timeout" }
            /\ ghost.exports = 1
            /\ anim.finished_calls = 1
            /\ anim.delete_callback = NoHandle
            /\ AnimatorHandles = {}
            /\ anim.path = "pruned" => ghost.removed = { anim.last_frame_path }
            /\ anim.path = "remove_failed" =>
                    (ghost.removed = {} /\ anim.last_frame_path \in host.files)
            /\ anim.path = "timeout" => anim.delete_attempts = MaxDeleteAttempts + 1
    /\ \A i \in ExportEvents :
            \A k \in Events(i) :
                PruningJobAt(ghost.trace[k]) =>
                    /\ k > 1
                    /\ ghost.trace[k - 1].e \in PruneResolved
                    /\ EventLeaf(ghost.trace[k - 1]) = EventLeaf(ghost.trace[k])

C26_Step ==
    (Polling /\ anim.last_frame_path \in host.files /\ ghost' # ghost) =>
        /\ Len(ghost'.trace) >= 3
        /\ ghost'.trace[1].e \in { "file_removed", "remove_failed" }
        /\ ghost'.trace[2].e \in ExportEvents
        /\ ghost'.trace[3].e = "on_finished"
        /\ anim.delete_callback \notin host'.registered
        /\ cfg.mode = "single" =>
                /\ anim'.finished_calls = 1
                /\ anim'.delete_callback = NoHandle
                /\ anim'.delete_attempts = anim.delete_attempts
                /\ ghost'.exports = 1

\* C26: when pruning applies nothing is exported while the poll is registered,
\* and every export comes right after the prune was resolved in the same
\* callback: the file was seen and its removal attempted, or the attempts ran
\* out.  A poll that sees the file attempts the removal, unregisters itself,
\* exports and calls the continuation in that tick, also when the removal
\* raised.
C26_ExportAfterPrune ==
    /\ []C26_Invariant
    /\ [][C26_Step]_vars

C26_Witness ==
    /\ cfg.mode = "single"
    /\ anim.path = "remove_failed"
    /\ anim.delete_attempts >= 1
    /\ anim.finished_calls = 1
    /\ host.dataset.written
    /\ Len(host.dataset.frames) = 2
    /\ anim.last_frame_path \in host.files
    /\ ghost.trace[1].e = "remove_failed"

\* x < y and x <= y for fractions with positive denominators.
FracLess(x, y) == x[1] * y[2] < y[1] * x[2]
FracLeq(x, y) == x[1] * y[2] <= y[1] * x[2]

\* The poses applied so far by the current animator, by frame: those read back
\* into the records and the one the actor carries.
AppliedPoses ==
    { anim.frame_data[k].pose : k \in 1..Len(anim.frame_data) }
        \cup { x.pose : x \in { y \in host.actors : y.id = anim.target_actor } }

\* C27: the progress with which the pose of frame i is computed is i/(N-1) when
\* N >= 2: 0 at frame 0, 1 at frame N-1, within [0,1] and growing with i.  When
\* N = 1 it is 0, and neither it nor the timestamp of the record has a zero
\* denominator.
C27_Progress ==
    (anim.exists /\ anim.has_target /\ anim.num_frames >= 1) =>
        /\ \A p \in AppliedPoses :
                /\ p.frame \in 0..(anim.num_frames - 1)
                /\ p.alpha[2] # 0
                /\ IF anim.num_frames >= 2
                   THEN /\ FracEq(p.alpha, Frac(p.frame, anim.num_frames - 1))
                        /\ FracLeq(Frac(0, 1), p.alpha) /\ FracLeq(p.alpha, Frac(1, 1))
                        /\ p.frame = 0 <=> FracEq(p.alpha, Frac(0, 1))
                        /\ p.frame = anim.num_frames - 1 <=> FracEq(p.alpha, Frac(1, 1))
                   ELSE p.alpha = Frac(0, 1)
        /\ \A p \in AppliedPoses : \A q \in AppliedPoses :
                p.frame < q.frame => FracLess(p.alpha, q.alpha)
        /\ \A k \in 1..Len(anim.frame_data) :
                /\ anim.frame_data[k].timestamp[2] # 0
                /\ anim.num_frames = 1 => anim.frame_data[k].timestamp = Frac(0, 1)

C27_Witness ==
    /\ anim.exists
    /\ anim.has_target
    /\ anim.num_frames = 3
    /\ Len(anim.frame_data) = 3
    /\ FracEq(anim.frame_data[1].pose.alpha, Frac(0, 1))
    /\ FracEq(anim.frame_data[2].pose.alpha, Frac(1, 2))
    /\ FracEq(anim.frame_data[3].pose.alpha, Frac(1, 1))

\* C28: the rotation applied at frame i has the pitch and the roll of the start
\* snapshot and the yaw startYaw + i/(N-1) * totalRotation: startYaw at frame
\* 0 (and at the only frame of a job of one frame), startYaw + totalRotation at
\* frame N-1 when N >= 2.
C28_Yaw ==
    (anim.exists /\ anim.has_target) =>
        \A p \in AppliedPoses :
            /\ p.rotation.pitch = anim.start_rotation.pitch
            /\ p.rotation.roll = anim.start_rotation.roll
            /\ IF anim.num_frames >= 2
               THEN FracEq(p.rotation.yaw,
                           FracAdd(anim.start_rotation.yaw,
                                   Frac(p.frame * TotalRotation, anim.num_frames - 1)))
               ELSE FracEq(p.rotation.yaw, anim.start_rotation.yaw)
            /\ p.frame = 0 => FracEq(p.rotation.yaw, anim.start_rotation.yaw)
            /\ (anim.num_frames >= 2 /\ p.frame = anim.num_frames - 1) =>
                    FracEq(p.rotation.yaw,
                           FracAdd(anim.start_rotation.yaw, Frac(TotalRotation, 1)))

C28_Witness ==
    /\ anim.exists
    /\ anim.has_target
    /\ anim.num_frames = 3
    /\ Len(anim.frame_data) = 3
    /\ anim.start_rotation = InitialRotation
    /\ FracEq(anim.frame_data[1].pose.rotation.yaw, Frac(2, 1))
    /\ FracEq(anim.frame_data[2].pose.rotation.yaw, Frac(47, 1))
    /\ FracEq(anim.frame_data[3].pose.rotation.yaw, Frac(92, 1))
    /\ FracEq(anim.frame_data[3].pose.rotation.pitch, Frac(1, 1))
    /\ FracEq(anim.frame_data[3].pose.rotation.roll, Frac(3, 1))

\* The position asked for at frame i of a job of N frames that started at the
\* position origin.
RequestedAt(origin, i, N) ==
    IF N >= 2
    THEN Vector(FracAdd(origin[1], Frac(i * TotalDistance, N - 1)), origin[2], origin[3])
    ELSE origin

C29_Invariant ==
    (anim.exists /\ anim.has_target) =>
        /\ anim.start_position = InitialLocation
        /\ anim.start_rotation = InitialRotation
        /\ \A p \in AppliedPoses :
                /\ VectorEq(p.requested,
                            RequestedAt(anim.start_position, p.frame, anim.num_frames))
                /\ VectorEq(p.location, HostLocation(p.requested))

C29_Step ==
    (anim.exists /\ anim.has_target /\ anim'.exists /\ anim'.leaf = anim.leaf) =>
        /\ anim'.has_target
        /\ anim'.start_position = anim.start_position
        /\ anim'.start_rotation = anim.start_rotation

\* C29: the start position and rotation are set in start() and stay as they
\* are for the rest of the job; the position asked for at frame i is the start
\* position moved by the frame's progress, whatever the positions read back at
\* the frames before were.
C29_StartPoseFixed ==
    /\ []C29_Invariant
    /\ [][C29_Step]_vars

C29_Witness ==
    /\ cfg.drift = 1
    /\ anim.exists
    /\ anim.has_target
    /\ anim.num_frames = 3
    /\ Len(anim.frame_data) = 3
    /\ VectorEq(anim.frame_data[2].pose.location,
                Vector(Frac(13, 1), Frac(-20, 1), Frac(31, 1)))
    /\ VectorEq(anim.frame_data[3].pose.requested,
                Vector(Frac(16, 1), Frac(-20, 1), Frac(30, 1)))
    /\ VectorEq(anim.previous_position, Vector(Frac(16, 1), Frac(-20, 1), Frac(31, 1)))
    /\ anim.start_position = InitialLocation

\* C30: a job that found its actor requests the screenshots of frames 0, 1, 2,
\* ... one by one, each once; when the frames are done (the job polls, has
\* exported or has finished) the requests are exactly those of frames 0..N-1,
\* the frame to be pruned among them; the dataset is exported at most once per
\* job, and exactly once by the time the job has finished.
C30_OneShotPerFrame ==
    /\ (anim.exists /\ anim.has_target /\ anim.num_frames >= 1) =>
            /\ anim.frame_index <= anim.num_frames
            /\ ghost.shots = UpTo(anim.frame_index)
            /\ (Polling \/ ghost.exports >= 1 \/ Finished) =>
                    ghost.shots = UpTo(anim.num_frames)
            /\ anim.last_frame_path # NoPath =>
                    \E k \in 1..Len(ghost.shots) : ghost.shots[k] = anim.last_frame_path
            /\ ghost.exports <= 1
            /\ Finished => ghost.exports = 1
            /\ host.dataset.written => ghost.exports = 1
    /\ \A i \in Events("export_written") \cup Events("export_failed") :
            \A j \in Events("export_written") \cup Events("export_failed") :
                EventLeaf(ghost.trace[i]) = EventLeaf(ghost.trace[j]) => i = j

C30_Witness ==
    /\ Finished
    /\ anim.has_target
    /\ anim.prune_last_frame
    /\ anim.num_frames = 3
    /\ anim.path = "pruned"
    /\ ghost.shots = << 0, 1, 2 >>
    /\ ghost.exports = 1
    /\ host.dataset.written
    /\ FrameIds(host.dataset.frames) = << 0, 1 >>

\* The fairness of the ticks, stated on the effects of the callbacks, is the
\* fairness of the tick actions.
TicksAreTheirEffects == [][TicksToldByEffect]_vars

\* The frame callbacks registered with the host.
FrameHandles == { h \in host.registered : h.kind = "frame" }

\* The job has asked for ghost.moves suspensions and its frame handler has run
\* Len(ghost.shots) times: the runs are the requests but the one still waiting.
C31_Invariant ==
    /\ Cardinality(AnimatorHandles) <= 1
    /\ (anim.exists /\ anim.has_target) =>
            /\ ghost.moves = Len(ghost.shots) + Cardinality(FrameHandles)
            /\ \A h \in FrameHandles :
                    /\ h = anim.callback_handle
                    /\ h.leaf = anim.leaf
                    /\ h.n = Len(ghost.shots)
                    /\ \A k \in 1..Len(anim.frame_data) : anim.frame_data[k].frame_index # h.n
            /\ \A j, k \in 1..Len(anim.frame_data) :
                    anim.frame_data[j].frame_index = anim.frame_data[k].frame_index => j = k
            /\ \A j, k \in 1..Len(ghost.shots) : ghost.shots[j] = ghost.shots[k] => j = k

\* A step in which a waiting frame callback is no longer the one waiting is one
\* run of the frame handler, and a run of the frame handler leaves the callback
\* it ran from unregistered; a step that is not such a run records nothing.
C31_Step ==
    /\ \A h \in FrameHandles :
            IF h \in FrameHandles'
            THEN /\ anim' = anim
                 /\ ghost'.shots = ghost.shots
                 /\ ghost'.moves = ghost.moves
            ELSE \/ /\ anim'.leaf = anim.leaf
                    /\ anim'.has_target
                    /\ ghost'.shots = Append(ghost.shots, h.n)
                    /\ ghost'.moves \in { ghost.moves, ghost.moves + 1 }
                    /\ \A g \in FrameHandles' : g.n = h.n + 1
                 \/ /\ anim'.leaf # anim.leaf
                    /\ Events("on_finished")' # {}
                    /\ \A g \in FrameHandles' : g.leaf = anim'.leaf /\ g.n = 0
    /\ (FrameHandles = {} /\ anim.exists /\ anim.has_target /\ anim'.leaf = anim.leaf) =>
            /\ anim'.frame_data = anim.frame_data
            /\ ghost'.shots = ghost.shots
            /\ FrameHandles' = {}

\* C31: every suspension the animator asks for leads to one run of its frame
\* handler and no more: the handler unregisters the callback it ran from, the
\* runs counted so far are the requests less the one still waiting, no frame
\* index is recorded twice, and at most one callback of an animator, frame or
\* prune poll, is registered at any time.
C31_OneRunPerRequest ==
    /\ []C31_Invariant
    /\ [][C31_Step]_vars

C31_Witness ==
    /\ cfg.mode = "single"
    /\ anim.has_target
    /\ anim.num_frames = 3
    /\ ghost.moves = 3
    /\ ghost.shots = << 0, 1 >>
    /\ FrameHandles = { Handle("frame", anim.leaf, 2) }
    /\ FrameIndices(anim.frame_data) = << 0, 1 >>

\* The arguments the dispatcher was called with for an applied pose, and names
\* to call it with again.
UnregisteredNames == { MotionName(1), HostRelabel(Linear), <<"l", "i", "n", "e", "a">>, <<>> }

\* C32: the position asked for at a frame is, for a motion_type that is no key
\* of the registry, the position of the linear pattern (the start moved along x
\* by progress times total_distance) and, for a key of the registry, the
\* position of the calculator bound to that key (the start itself for
\* static_rotation); called again with the arguments of that frame, the
\* dispatcher gives for every key the result of the key's calculator and for
\* every other name the result of calculate_linear.
C32_Dispatch ==
    (anim.exists /\ anim.has_target) =>
        \A p \in AppliedPoses :
            /\ anim.motion_type \notin MOTION_CALCULATORS =>
                    /\ p.requested =
                            calculate_linear(p.alpha, anim.start_position, TotalDistance)
                    /\ VectorEq(p.requested,
                                RequestedAt(anim.start_position, p.frame, anim.num_frames))
            /\ anim.motion_type = Linear =>
                    VectorEq(p.requested,
                             RequestedAt(anim.start_position, p.frame, anim.num_frames))
            /\ anim.motion_type = StaticRotation => p.requested = anim.start_position
            /\ anim.motion_type \in MOTION_CALCULATORS =>
                    p.requested =
                        Calculate(anim.motion_type, p.alpha, anim.start_position,
                                  p.frame, anim.num_frames, TotalDistance)
            /\ \A name \in MOTION_CALCULATORS :
                    get_position_for_motion(name, p.alpha, anim.start_position,
                                            p.frame, anim.num_frames, TotalDistance)
                        = Calculate(name, p.alpha, anim.start_position,
                                    p.frame, anim.num_frames, TotalDistance)
            /\ \A name \in UnregisteredNames :
                    get_position_for_motion(name, p.alpha, anim.start_position,
                                            p.frame, anim.num_frames, TotalDistance)
                        = calculate_linear(p.alpha, anim.start_position, TotalDistance)

C32_Witness ==
    /\ anim.exists
    /\ anim.has_target
    /\ anim.motion_type = MotionName(1)
    /\ anim.motion_type \notin MOTION_CALCULATORS
    /\ anim.num_frames = 3
    /\ Len(anim.frame_data) = 3
    /\ VectorEq(anim.frame_data[2].pose.requested,
                Vector(Frac(13, 1), Frac(-20, 1), Frac(30, 1)))
    /\ VectorEq(anim.frame_data[3].pose.requested,
                Vector(Frac(16, 1), Frac(-20, 1), Frac(30, 1)))

\* The events of a handler at which it reads the configuration: at the scene
\* index (render.py:445, 493), at the scene and asset indices (render.py:517-518)
\* and at all three (render.py:528, 647-652, 692-697).
ReadsAtScene ==
    { "process_next_hdri", "process_next_asset", "backdrop_ok", "backdrop_failed",
      "camera_set", "camera_skipped" }
ReadsAtAsset == { "process_next_motion" }
ReadsAtMotion == { "spawn_attempt", "animator_started" }

SceneInRange(ev) == 0 <= ev.s /\ ev.s < Len(cfg.hdri_configs)
AssetInRange(ev) ==
    SceneInRange(ev) /\ 0 <= ev.a /\ ev.a < Len(SceneAt(ev.s).assets)
MotionInRange(ev) ==
    AssetInRange(ev) /\ 0 <= ev.m /\ ev.m < Len(SceneAt(ev.s).assets[ev.a + 1].motions)

\* What happens to the three indices from one event of a handler to the next:
\* nothing, or one of them grows by one, or the asset index is reset on
\* entering a scene, or the motion index is reset on entering an asset.
IndexMove(ev, next) ==
    \/ EventLeaf(next) = EventLeaf(ev)
    \/ EventLeaf(next) = << ev.s + 1, ev.a, ev.m >>
    \/ EventLeaf(next) = << ev.s, ev.a + 1, ev.m >>
    \/ EventLeaf(next) = << ev.s, ev.a, ev.m + 1 >>
    \/ /\ EventLeaf(next) = << ev.s, 0, ev.m >>
       /\ ev.e \in { "camera_set", "camera_skipped" }
       /\ next.e = "process_next_asset"
    \/ /\ EventLeaf(next) = << ev.s, ev.a, 0 >>
       /\ ev.e = "process_next_asset"
       /\ next.e = "process_next_motion"

C33_Invariant ==
    /\ seq.current_hdri_index \in 0..Len(cfg.hdri_configs)
    /\ seq.current_asset_index >= 0
    /\ seq.current_motion_index >= 0
    /\ ghost.trace # <<>> => EventLeaf(ghost.trace[Len(ghost.trace)]) = Leaf(World)
    /\ \A i \in 1..Len(ghost.trace) :
            /\ ghost.trace[i].e \in ReadsAtScene => SceneInRange(ghost.trace[i])
            /\ ghost.trace[i].e \in ReadsAtAsset => AssetInRange(ghost.trace[i])
            /\ ghost.trace[i].e \in ReadsAtMotion => MotionInRange(ghost.trace[i])
    /\ \A i \in 1..(Len(ghost.trace) - 1) :
            /\ IndexMove(ghost.trace[i], ghost.trace[i + 1])
            /\ (ghost.trace[i].e \in { "camera_set", "camera_skipped" }) =>
                    /\ ghost.trace[i + 1].e = "process_next_asset"
                    /\ ghost.trace[i + 1].a = 0
            /\ (ghost.trace[i].e = "process_next_asset"
                    /\ ghost.trace[i + 1].e = "process_next_motion") =>
                    ghost.trace[i + 1].m = 0
    /\ (AnimatorHandles # {} /\ cfg.mode = "batch") =>
            MotionInRange([s |-> seq.current_hdri_index, a |-> seq.current_asset_index,
                           m |-> seq.current_motion_index])

\* A handler starts from the indices the step before it left; a step that is
\* not a handler of the Sequencer or runs none of its methods leaves them.
C33_Step ==
    /\ seq'.current_hdri_index >= seq.current_hdri_index
    /\ IF ghost'.trace = <<>> \/ ghost' = ghost
       THEN Leaf(World)' = Leaf(World)
       ELSE EventLeaf(ghost'.trace[1]) = Leaf(World)

\* C33: every read of the configuration is at indices in range: the scene index
\* within the scenes, the asset index within the assets of the scene, the motion
\* index within the motions of the asset.  The scene index never goes down; the
\* asset index is set to 0 when a scene is entered and only then, the motion
\* index is set to 0 when an asset is entered and only then, and apart from
\* that an index moves by one step up at a time.
C33_IndicesInRange ==
    /\ []C33_Invariant
    /\ [][C33_Step]_vars

C33_Witness ==
    /\ seq.current_hdri_index = 1
    /\ AnimatorHandles # {}
    /\ \E i \in 1..(Len(ghost.trace) - 1) :
            /\ ghost.trace[i].a >= 1
            /\ ghost.trace[i + 1].a = 0
            /\ ghost.trace[i + 1].e = "process_next_asset"
    /\ \E j \in 1..(Len(ghost.trace) - 1) :
            /\ ghost.trace[j].m >= 1
            /\ ghost.trace[j + 1].m = 0
            /\ ghost.trace[j + 1].e = "process_next_motion"

\* The job ended on the prune-success path: the poll saw the file of the pruned
\* frame and os.remove removed it.
PrunedJob == anim.exists /\ anim.path = "pruned"
WriteOutstanding(path) == \E k \in 1..Len(host.pending) : host.pending[k] = path

\* C34 as stated: once a job has ended on the prune-success path, the image
\* file of the pruned frame is not in the job's output directory, in that state
\* and in every later one.
C34_PrunedFileAbsent == PrunedJob => anim.last_frame_path \notin host.files

C34_Invariant ==
    PrunedJob =>
        /\ anim.last_frame_path = anim.num_frames - 1
        /\ ghost.removed = { anim.last_frame_path }
        /\ anim.last_frame_path \in host.files => ~WriteOutstanding(anim.last_frame_path)

C34_Step ==
    /\ (PrunedJob' /\ ~PrunedJob) => anim'.last_frame_path \notin host'.files
    /\ (PrunedJob /\ PrunedJob' /\ anim'.leaf = anim.leaf) =>
            /\ (anim.last_frame_path \notin host.files
                    /\ ~WriteOutstanding(anim.last_frame_path)) =>
                    anim.last_frame_path \notin host'.files
            /\ (anim.last_frame_path \notin host.files
                    /\ anim.last_frame_path \in host'.files) =>
                    /\ host.pending # <<>>
                    /\ Head(host.pending) = anim.last_frame_path
                    /\ host'.pending = Tail(host.pending)
            /\ anim.last_frame_path \in host.files => anim.last_frame_path \in host'.files

\* C34, what the poll achieves: when the job ends on the prune-success path a
\* file of the pruned frame's name has just been removed and none is in the
\* directory; it stays absent when the host's write of that frame had landed
\* before, and when the write was still outstanding (the poll had seen a file
\* left by an earlier run) the host writes the image afterwards and nothing
\* removes it.
C34_AbsentUnlessWrittenLater ==
    /\ []C34_Invariant
    /\ [][C34_Step]_vars

C34_Witness ==
    /\ cfg.mode = "single"
    /\ PrunedJob
    /\ Finished
    /\ anim.num_frames = 2
    /\ ghost.removed = { 1 }
    /\ host.pending = <<>>
    /\ host.files = { 0, 1 }
    /\ host.dataset.written
    /\ FrameIds(host.dataset.frames) = << 0 >>

SceneName(s) == HdriName(SceneAt(s), s)

\* The scenes whose name a cleanup has gone through the level with: the scene
\* of every spawn attempt (render.py:531) and the scene before every scene
\* entered (render.py:453-456).
CleanedFor ==
    { ghost.attempts[k][1] : k \in 1..Len(ghost.attempts) }
        \cup { ghost.backdrops[k].s - 1 :
                    k \in { j \in 1..Len(ghost.backdrops) : ghost.backdrops[j].s > 0 } }

\* A scene is being rendered: its backdrop was set up and a job of it runs.
Rendering(s) ==
    /\ AnimatorHandles # {}
    /\ anim.leaf[1] = s
    /\ s \notin ghost.backdropFailed

\* C35 as stated: the cleanups destroy job actors only: an actor that was in
\* the level before the run is still in it, and while a scene is being rendered
\* its backdrop is in the level.
C35_OnlyJobActorsDestroyed ==
    cfg.mode = "batch" =>
        /\ LevelActors \subseteq host.actors
        /\ \A s \in 0..(Len(cfg.hdri_configs) - 1) :
                Rendering(s) => Actor(BackdropId(s), BackdropLabel) \in host.actors

\* C35, what the cleanups do: they destroy every actor whose label contains the
\* name of the scene, whoever spawned it.  An actor of the level is gone exactly
\* when a cleanup has run for a scene whose name its label contains; the
\* backdrop of the scene being rendered is in the level exactly when its label
\* does not contain the scene's name; the job actor in the level is always the
\* one of the latest spawn attempt.
C35_DestroyedByName ==
    (cfg.mode = "batch" /\ seq.started) =>
        /\ \A x \in LevelActors :
                x \in host.actors <=>
                    \A s \in CleanedFor : ~Contains(x.label, SceneName(s))
        /\ \A s \in 0..(Len(cfg.hdri_configs) - 1) :
                Rendering(s) =>
                    (Actor(BackdropId(s), BackdropLabel) \in host.actors
                        <=> ~Contains(BackdropLabel, SceneName(s)))
        /\ \A x \in JobActorsOf(World) :
                /\ ghost.attempts # <<>>
                /\ x.id = JobId(ghost.attempts[Len(ghost.attempts)])

C35_Witness ==
    /\ cfg.mode = "batch"
    /\ cfg.hdri_configs # <<>>
    /\ SceneName(0) = <<"H", "D", "R", "I">>
    /\ Rendering(0)
    /\ existing_backdrops(host.actors) = {}
    /\ LevelActors \subseteq host.actors
    /\ JobActorsOf(World) # {}

\* start() was called and load_map returned False.
LoadFailed ==
    /\ cfg.mode = "batch"
    /\ seq.started
    /\ Events("map_load_failed") # {}

C36_Invariant ==
    /\ LoadFailed =>
            /\ host.registered = {}
            /\ seq.map_load_handle = NoHandle
            /\ ~seq.map_loaded
            /\ host.level_loads = 0
            /\ ghost.backdrops = <<>>
            /\ ghost.backdropFailed = {}
            /\ host.camera = -1
            /\ ghost.attempts = <<>>
            /\ host.actors = {}
            /\ ~anim.exists
            /\ ~Completed
            /\ ghost.completions = 0
            /\ Events("completed") = {}
            /\ Leaf(World) = << 0, 0, 0 >>
            /\ ghost.trace = << [e |-> "map_load_failed", s |-> 0, a |-> 0, m |-> 0] >>
    /\ (cfg.mode = "batch" /\ seq.started /\ ~seq.map_loaded
            /\ seq.map_load_handle = NoHandle
            /\ ~MainAborts(cfg.hdri_configs, cfg.output_directory)) => LoadFailed

\* Nothing happens after a failed load.
C36_Step == LoadFailed => UNCHANGED vars

\* C36: when load_map fails in start() the Sequencer registers no tick
\* callback, sets up no backdrop and no camera, spawns no actor and constructs
\* no animator; its three indices are 0 and stay 0, and it neither reaches nor
\* logs the completed state: no step of the program follows.
C36_LoadFailure ==
    /\ []C36_Invariant
    /\ [][C36_Step]_vars

C36_Witness ==
    /\ LoadFailed
    /\ Len(cfg.hdri_configs) = 2
    /\ LeavesExcept({}) # <<>>
    /\ cfg.output_directory # <<>>

\* A scene without assets and an asset without motions: the list is empty or
\* the key is left out.
EmptyScene(s) == get_assets(SceneAt(s)) = <<>>
EmptyAsset(s, a) == get_motions(SceneAt(s).assets[a + 1]) = <<>>

ScenesSetUp == { ghost.backdrops[k].s : k \in 1..Len(ghost.backdrops) }

\* C37: a scene without assets gets its backdrop and camera and is left in the
\* same call for the next scene; an asset without motions is left in the same
\* call for the next asset of the scene; neither is ever the leaf of a spawn
\* attempt or of a job; the keys read without a default are there whenever they
\* are read; every scene passed, with or without assets, was set up, and of
\* every scene passed that was not skipped all leaves were attempted in the
\* declared order.
C37_EmptyListsPassed ==
    cfg.mode = "batch" =>
        /\ \A i \in Events("process_next_asset") :
                EmptyScene(ghost.trace[i].s) =>
                    /\ ghost.trace[i].a = 0
                    /\ i >= 3
                    /\ ghost.trace[i - 1].e \in { "camera_set", "camera_skipped" }
                    /\ ghost.trace[i - 2].e = "backdrop_ok"
                    /\ ghost.trace[i - 2].s = ghost.trace[i].s
                    /\ i + 1 <= Len(ghost.trace)
                    /\ ghost.trace[i + 1].e \in { "process_next_hdri", "completed" }
                    /\ ghost.trace[i + 1].s = ghost.trace[i].s + 1
        /\ \A i \in Events("process_next_motion") :
                /\ SceneAt(ghost.trace[i].s).has_assets
                /\ EmptyAsset(ghost.trace[i].s, ghost.trace[i].a) =>
                        /\ ghost.trace[i].m = 0
                        /\ i + 1 <= Len(ghost.trace)
                        /\ ghost.trace[i + 1].e = "process_next_asset"
                        /\ EventLeaf(ghost.trace[i + 1]) =
                                << ghost.trace[i].s, ghost.trace[i].a + 1, 0 >>
        /\ \A i \in Events("spawn_attempt") \cup Events("animator_started") :
                /\ ~EmptyScene(ghost.trace[i].s)
                /\ ~EmptyAsset(ghost.trace[i].s, ghost.trace[i].a)
                /\ SceneAt(ghost.trace[i].s).assets[ghost.trace[i].a + 1].has_motions
        /\ \A k \in 1..Len(ghost.attempts) :
                /\ ~EmptyScene(ghost.attempts[k][1])
                /\ ~EmptyAsset(ghost.attempts[k][1], ghost.attempts[k][2])
        /\ anim.exists => (~EmptyScene(anim.leaf[1]) /\ ~EmptyAsset(anim.leaf[1], anim.leaf[2]))
        /\ \A s \in 0..(seq.current_hdri_index - 1) :
                /\ s \in ScenesSetUp
                /\ s \notin ghost.skipped => Restrict(ghost.attempts, s) = LeavesOfScene(s)
        /\ (seq.map_loaded /\ ~Completed) =>
                IsPrefix(Restrict(ghost.attempts, seq.current_hdri_index),
                         LeavesOfScene(seq.current_hdri_index))

C37_Witness ==
    /\ Completed
    /\ Len(cfg.hdri_configs) = 2
    /\ ~SceneAt(1).has_assets
    /\ Len(SceneAt(0).assets) = 2
    /\ ~SceneAt(0).assets[1].has_motions
    /\ ghost.attempts = << << 0, 1, 0 >> >>
    /\ ScenesSetUp = { 0, 1 }
    /\ ghost.backdropFailed = {}
    /\ \E i \in Events("process_next_asset") : ghost.trace[i].s = 1

\* C38: a job that found its actor captures max(1, num_frames) frames.  With
\* num_frames <= 0 it applies one pose and waits for one tick; that tick records
\* frame 0 with progress 0 and timestamp 0, requests the one screenshot, skips
\* the prune whether pruning is on or off, exports the one record and calls the
\* continuation, once.
C38_AtLeastOneFrame ==
    (anim.exists /\ anim.has_target) =>
        /\ Len(ghost.shots) <= Max(1, anim.num_frames)
        /\ (Finished \/ Polling) => Len(ghost.shots) = Max(1, anim.num_frames)
        /\ anim.num_frames <= 0 =>
                /\ ghost.moves = 1
                /\ anim.delete_callback = NoHandle
                /\ anim.last_frame_path = NoPath
                /\ ghost.removed = {}
                /\ \A h \in host.registered : h = Handle("frame", anim.leaf, 0)
                /\ \A p \in AppliedPoses : p.frame = 0 /\ p.alpha = Frac(0, 1)
                /\ IF FrameHandles # {}
                   THEN /\ anim.frame_data = <<>>
                        /\ ghost.shots = <<>>
                        /\ ghost.exports = 0
                        /\ anim.finished_calls = 0
                        /\ anim.frame_index = 0
                   ELSE /\ Len(anim.frame_data) = 1
                        /\ anim.frame_data[1].frame_index = 0
                        /\ anim.frame_data[1].pose.frame = 0
                        /\ anim.frame_data[1].timestamp[2] > 0
                        /\ FracEq(anim.frame_data[1].timestamp, Frac(0, 1))
                        /\ ghost.shots = << 0 >>
                        /\ ghost.exports = 1
                        /\ anim.finished_calls = 1
                        /\ anim.path = "no_prune"
                        /\ anim.frame_index = 1
                        /\ host.dataset.written =>
                                FrameIds(host.dataset.frames) = << 0 >>

C38_Witness ==
    /\ anim.exists
    /\ anim.has_target
    /\ anim.num_frames = -1
    /\ anim.prune_last_frame
    /\ Finished
    /\ ghost.moves = 1
    /\ ghost.shots = << 0 >>
    /\ host.dataset.written
    /\ FrameIds(host.dataset.frames) = << 0 >>
    /\ host.pending = <<>>

\* The handler ran and found the flag set.
RanAgain == Events("already_loaded") # {}

C39_Invariant ==
    /\ \A j, k \in 1..Len(ghost.backdrops) :
            j < k => ghost.backdrops[j].s < ghost.backdrops[k].s
    /\ seq.map_loaded =>
            /\ seq.map_load_handle = NoHandle
            /\ \A h \in host.registered : h.kind # "map"
            /\ ghost.backdrops # <<>> => ghost.backdrops[1].s = 0
    /\ ghost.backdrops # <<>> => seq.map_loaded
    /\ RanAgain =>
            /\ seq.map_loaded
            /\ ghost.trace = << [e |-> "already_loaded", s |-> seq.current_hdri_index,
                                 a |-> seq.current_asset_index,
                                 m |-> seq.current_motion_index] >>
    /\ \A i \in Events("map_loaded") : i = 1 /\ EventLeaf(ghost.trace[i]) = << 0, 0, 0 >>

C39_Step ==
    /\ seq.map_loaded => seq'.map_loaded
    /\ (~seq.map_loaded /\ seq'.map_loaded) =>
            /\ seq.map_load_handle \in host.registered
            /\ seq.map_load_handle \notin host'.registered
            /\ Events("map_loaded")' = { 1 }
            /\ ghost.backdrops = <<>>
    /\ (seq.map_loaded /\ ghost' # ghost) => Events("map_loaded")' = {}
    /\ (RanAgain' /\ ghost' # ghost) =>
            /\ seq' = seq
            /\ anim' = anim
            /\ host' = host
            /\ ghost' = [ghost EXCEPT !.trace = ghost'.trace]

\* C39: the map-loaded handler starts the sequencing once.  Its first run
\* unregisters the map-load callback and sets map_loaded, which stays set; a
\* run that finds the flag set changes nothing: no index, no actor, no
\* callback, no backdrop setup, no spawn; so the scenes are entered in
\* increasing order and the first scene once.
C39_StartsOnce ==
    /\ []C39_Invariant
    /\ [][C39_Step]_vars

C39_Witness ==
    /\ RanAgain
    /\ AnimatorHandles # {}
    /\ seq.current_hdri_index = 0
    /\ Len(ghost.backdrops) = 1
    /\ Len(ghost.attempts) = 2
    /\ anim.frame_index = 1

====
